---- MODULE Spec2Model ----
(***************************************************************************)
(* Job orchestration and progress tracking of instock/web:                 *)
(*   dataUpdateHandler.py  - the global-slot orchestrator                  *)
(*   jobUpdateHandler.py   - the keyed orchestrator                        *)
(*   lib/progress_tracker.py - the JSON progress store                     *)
(* Request handlers run on the single tornado IOLoop thread ("main"), one  *)
(* handler at a time (post has no await); every accepted job runs on its   *)
(* own daemon thread.  A `with lock:` block is one atomic action.          *)
(* Percentages are integers in hundredths (25.0 is 2500); None is NoneV.   *)
(***************************************************************************)
EXTENDS Integers, Sequences, FiniteSets, TLC

VARIABLES
    g,        \* dataUpdateHandler._update_tasks (the global slot)
    kt,       \* jobUpdateHandler._update_tasks (task_key -> task)
    file,     \* the document at progress_tracker._DEFAULT_PATH
    cwd,      \* the process working directory
    clock,    \* next value time.time() returns
    sec,      \* int(time.time()) as read for a keyed task_key
    runs,     \* one record per admitted job: its thread's position and locals
    mainPc,   \* position of the IOLoop thread
    req,      \* locals of the request being handled
    resp,     \* the response the handler wrote
    tmp,      \* the document at progress_tracker's path + ".tmp"
    call,     \* the progress_tracker / aggregator call being made, or made last
    cfg       \* configHandler: the schedule lists being merged

vars == <<g, kt, file, cwd, clock, sec, runs, mainPc, req, resp, tmp, call, cfg>>

\* the state of the orchestrators, and the state they never touch
webVars == <<g, kt, cwd, clock, sec, runs, mainPc, req, resp>>
libVars == <<tmp, call, cfg>>

-----------------------------------------------------------------------------
\* Bounds of the model
MaxRuns == 2
MaxUpdates == 1
MaxSec == 1

NoneV == -1

-----------------------------------------------------------------------------
\* Job catalogs

ProgressKeys == {"stock_spot", "fund_etf"}

\* dataUpdateHandler.PROGRESS_GROUPS
PROGRESS_GROUPS ==
    [basic |-> <<"stock_spot", "fund_etf">>, basic_other |-> <<>>,
     after_close |-> <<>>, indicators |-> <<>>, kline |-> <<>>,
     strategy |-> <<>>, selection |-> <<>>, backtest |-> <<>>,
     full |-> <<"stock_spot", "fund_etf">>,
     complete |-> <<"stock_spot", "fund_etf">>]

\* dataUpdateHandler.JOB_EXECUTORS: name, callable (module of main), message
JOB_EXECUTORS ==
    [basic       |-> [name |-> "basic",       callable |-> "basic_data_daily_job",             message |-> "updating basic"],
     basic_other |-> [name |-> "basic_other", callable |-> "basic_data_other_daily_job",       message |-> "updating basic_other"],
     after_close |-> [name |-> "after_close", callable |-> "basic_data_after_close_daily_job", message |-> "updating after_close"],
     indicators  |-> [name |-> "indicators",  callable |-> "indicators_data_daily_job",        message |-> "computing indicators"],
     kline       |-> [name |-> "kline",       callable |-> "klinepattern_data_daily_job",      message |-> "recognising kline"],
     strategy    |-> [name |-> "strategy",    callable |-> "strategy_data_daily_job",          message |-> "running strategy"],
     selection   |-> [name |-> "selection",   callable |-> "selection_data_daily_job",         message |-> "running selection"],
     backtest    |-> [name |-> "backtest",    callable |-> "backtest_data_daily_job",          message |-> "running backtest"],
     full        |-> [name |-> "complete_update", callable |-> "execute_daily_job",            message |-> "running complete update"],
     complete    |-> [name |-> "complete_update", callable |-> "execute_daily_job",            message |-> "running complete update"]]

\* jobUpdateHandler.JOB_EXECUTORS
KJOB_EXECUTORS ==
    [basic_data             |-> [name |-> "basic",       callable |-> "basic_data_daily_job",             message |-> "updating basic"],
     basic_data_other       |-> [name |-> "basic_other", callable |-> "basic_data_other_daily_job",       message |-> "updating basic_other"],
     basic_data_after_close |-> [name |-> "after_close", callable |-> "basic_data_after_close_daily_job", message |-> "updating after_close"],
     indicators             |-> [name |-> "indicators",  callable |-> "indicators_data_daily_job",        message |-> "computing indicators"],
     indicators_buy         |-> [name |-> "indicators_buy",  callable |-> "indicators_data_daily_job",    message |-> "filtering buy"],
     indicators_sell        |-> [name |-> "indicators_sell", callable |-> "indicators_data_daily_job",    message |-> "filtering sell"],
     kline_pattern          |-> [name |-> "kline",       callable |-> "klinepattern_data_daily_job",      message |-> "recognising kline"],
     strategy               |-> [name |-> "strategy",    callable |-> "strategy_data_daily_job",          message |-> "running strategy"],
     selection              |-> [name |-> "selection",   callable |-> "selection_data_daily_job",         message |-> "running selection"],
     backtest               |-> [name |-> "backtest",    callable |-> "backtest_data_daily_job",          message |-> "running backtest"],
     complete               |-> [name |-> "complete_update", callable |-> "execute_daily_job",            message |-> "running complete update"]]

\* jobUpdateHandler.JOB_MAPPING: the keys and the display name
JOB_MAPPING ==
    [basic_data |-> "basic", basic_data_other |-> "basic_other",
     basic_data_after_close |-> "after_close", indicators |-> "indicators",
     indicators_buy |-> "indicators_buy", indicators_sell |-> "indicators_sell",
     kline_pattern |-> "kline", strategy |-> "strategy",
     selection |-> "selection", backtest |-> "backtest",
     complete |-> "complete_update"]

\* The progress keys a job callable reports: those PROGRESS_GROUPS lists for
\* a job run by the same callable.
Range(s) == {s[i] : i \in 1..Len(s)}

WritesOf(callable) ==
    UNION {Range(PROGRESS_GROUPS[j]) :
             j \in {x \in DOMAIN JOB_EXECUTORS : JOB_EXECUTORS[x].callable = callable}}

\* Request inputs
GlobalTypes == {"full", "indicators", "bogus"}
KeyedTypes == {"basic_data", "strategy", "bogus", ""}
Bodies == {"json", "malformed"}
\* (current, total) pairs a callable reports
JobUpdates == {<<1, 2>>, <<3, NoneV>>}
ErrText == "boom"

-----------------------------------------------------------------------------
\* progress_tracker.py

EmptyMap == [k \in {} |-> NoneV]

\* Nearest integer to n/d (d > 0), a tie going to the even neighbour: the
\* hundredths of Python's round(n/d, 2) when n/d is the value times 100.
RoundDiv(n, d) ==
    LET q == n \div d
        r == n % d
    IN  IF 2 * r < d THEN q
        ELSE IF 2 * r > d THEN q + 1
        ELSE IF q % 2 = 0 THEN q ELSE q + 1

PercentFloor(current, total) == (current * 10000) \div total

\* round(current / total * 100, 2), in hundredths
Percent(current, total) == RoundDiv(current * 10000, total)

\* _read_all: a missing or unparseable file reads as {}; any parseable
\* document is returned as json.load gives it (a list or scalar included).
ReadAll(f) ==
    IF f.kind \in {"missing", "garbage"} THEN [kind |-> "map", data |-> EmptyMap]
    ELSE f

\* _write_all: the temporary file replaces the document
WriteAll(data) == [kind |-> "map", data |-> data]

\* update: [raised, file].  data.setdefault raises AttributeError on a
\* document that is no dict.  `by` is a history field: the run that wrote it.
NewRecord(old, current, total, message, success, by) ==
    [current |-> current,
     total |-> total,
     message |-> message,
     progress |-> IF total # NoneV /\ total # 0 /\ total > 0
                  THEN Percent(current, total) ELSE NoneV,
     success |-> IF success # "none" THEN success ELSE old,
     by |-> by]

Update(f, task_id, current, total, message, success, by) ==
    LET doc == ReadAll(f) IN
    IF doc.kind # "map" THEN [raised |-> TRUE, file |-> f]
    ELSE LET old == IF task_id \in DOMAIN doc.data
                    THEN doc.data[task_id].success ELSE "unset"
             rec == NewRecord(old, current, total, message, success, by)
         IN [raised |-> FALSE,
             file |-> WriteAll([k \in DOMAIN doc.data \cup {task_id} |->
                                  IF k = task_id THEN rec ELSE doc.data[k]])]

ClearKeepsRecord(f, task_id) == [raised |-> FALSE, file |-> f]

\* clear: [raised, file].  `task_id in data` raises TypeError on a scalar and
\* is False on a list.
Clear(f, task_id) ==
    IF f.kind = "missing" THEN [raised |-> FALSE, file |-> f]
    ELSE LET doc == ReadAll(f) IN
         IF doc.kind = "scalar" THEN [raised |-> TRUE, file |-> f]
         ELSE IF doc.kind = "list" THEN [raised |-> FALSE, file |-> f]
         ELSE IF task_id \in DOMAIN doc.data
              THEN [raised |-> FALSE,
                    file |-> WriteAll([k \in DOMAIN doc.data \ {task_id} |-> doc.data[k]])]
              ELSE [raised |-> FALSE, file |-> f]

\* get: [raised, present, value]; value is the record when present, NoneV
\* otherwise (data.get returns None)
Get(f, task_id) ==
    IF f.kind = "missing" THEN [raised |-> FALSE, present |-> FALSE, value |-> NoneV]
    ELSE LET doc == ReadAll(f) IN
         IF doc.kind # "map" THEN [raised |-> TRUE, present |-> FALSE, value |-> NoneV]
         ELSE IF task_id \in DOMAIN doc.data
              THEN [raised |-> FALSE, present |-> TRUE, value |-> doc.data[task_id]]
              ELSE [raised |-> FALSE, present |-> FALSE, value |-> NoneV]

GetManyNullsAbsent(f, task_ids) ==
    LET doc == ReadAll(f) IN
    IF doc.kind # "map" THEN [raised |-> TRUE, value |-> EmptyMap]
    ELSE [raised |-> FALSE,
          value |-> [k \in task_ids |->
                       IF k \in DOMAIN doc.data THEN doc.data[k] ELSE NoneV]]

\* get_many: [raised, value]; data.get raises AttributeError on a non-dict
GetMany(f, task_ids) ==
    LET doc == ReadAll(f) IN
    IF doc.kind # "map" THEN [raised |-> TRUE, value |-> EmptyMap]
    ELSE [raised |-> FALSE,
          value |-> [k \in task_ids \cap DOMAIN doc.data |-> doc.data[k]]]

-----------------------------------------------------------------------------
\* dataUpdateHandler.py: helpers

\* _collect_progress (the second definition, lines 90-96, is the one in effect)
CollectProgress(job_key, f) ==
    IF job_key = "none" THEN [raised |-> FALSE, value |-> EmptyMap]
    ELSE LET groups == IF job_key \in DOMAIN PROGRESS_GROUPS
                       THEN PROGRESS_GROUPS[job_key] ELSE <<>>
         IN IF groups = <<>> THEN [raised |-> FALSE, value |-> EmptyMap]
            ELSE GetMany(f, Range(groups))

\* the value one record contributes, NoneV when it contributes none
UsableValue(info) ==
    IF info.progress # NoneV THEN info.progress
    ELSE IF info.current # NoneV /\ info.total # NoneV /\ info.total # 0
         THEN Percent(info.current, info.total)
         ELSE NoneV

RECURSIVE SumValues(_, _)
SumValues(details, ks) ==
    IF ks = {} THEN 0
    ELSE LET k == CHOOSE x \in ks : TRUE
         IN UsableValue(details[k]) + SumValues(details, ks \ {k})

ComputeProgressPercentOverAll(details) ==
    LET usable == {k \in DOMAIN details : UsableValue(details[k]) # NoneV} IN
    IF usable = {} THEN NoneV
    ELSE RoundDiv(SumValues(details, usable), Cardinality(DOMAIN details))

\* _compute_progress_percent on a dict: NoneV when no record is usable
ComputeProgressPercent(details) ==
    LET usable == {k \in DOMAIN details : UsableValue(details[k]) # NoneV} IN
    IF usable = {} THEN NoneV
    ELSE RoundDiv(SumValues(details, usable), Cardinality(usable))

-----------------------------------------------------------------------------
\* State after import of the two handler modules

NoResp == [op |-> "none", accepted |-> FALSE, reason |-> "none",
           task_id |-> <<>>, data |-> EmptyMap]
NoReq == [ci |-> 0, run |-> 0]

\* no store call was made yet, no temporary file, no schedule merge
NoCall == [op |-> "none", pc |-> "idle"]
NoTmp == [kind |-> "missing", data |-> EmptyMap]
NoCfg == [pc |-> "none"]

\* dataUpdateHandler._update_tasks = {}: every field reads as its default
NoTask ==
    [running |-> FALSE, start_time |-> NoneV, end_time |-> NoneV,
     type |-> "unset", job |-> "none", progress |-> 0,
     message |-> <<"unset">>, success |-> "none", cwd |-> "unset",
     progress_details |-> EmptyMap]

\* the orchestrators at rest
WebInit ==
    /\ g = NoTask
    /\ kt = EmptyMap
    /\ cwd = "home"
    /\ clock = 0
    /\ sec = 0
    /\ runs = <<>>
    /\ mainPc = "idle"
    /\ req = NoReq
    /\ resp = NoResp

Init ==
    /\ WebInit
    /\ file \in {[kind |-> k, data |-> EmptyMap] :
                   k \in {"missing", "garbage", "list", "scalar"}}
    /\ tmp = NoTmp
    /\ call = NoCall
    /\ cfg = NoCfg

Response(op, accepted, reason, task_id, data) ==
    [op |-> op, accepted |-> accepted, reason |-> reason,
     task_id |-> task_id, data |-> data]

NewRun(flavor, job, key, callable, pc) ==
    [flavor |-> flavor, job |-> job, key |-> key, callable |-> callable,
     pc |-> pc, orig |-> "unset", nupd |-> 0, err |-> "none", ci |-> 0,
     fin |-> FALSE]

\* a thread that ended: its locals are gone
EndRun(w, pc) ==
    [runs EXCEPT ![w].pc = pc, ![w].orig = "unset", ![w].nupd = 0,
                 ![w].err = "none", ![w].ci = 0]

SetRun(w, field, value) == [runs EXCEPT ![w][field] = value]

\* Thread w of the given flavor is at pc.  A handler that has written its
\* response returns before any other step is looked at: returning touches
\* no shared state.
At(w, flavor, pc) == mainPc # "reply" /\ runs[w].flavor = flavor /\ runs[w].pc = pc

-----------------------------------------------------------------------------
\* DataUpdateHandler.post (dataUpdateHandler.py 180-276), on the IOLoop thread

\* the except clause, lines 267-276
GPostExcept(slot) == [slot EXCEPT !.running = FALSE]

GPreLockMarksType(slot, update_type, dir) ==
    [slot EXCEPT !.cwd = dir, !.type = update_type]

\* lines 183-185: what the handler writes before it takes the lock
GPreLock(slot, update_type, dir) == [slot EXCEPT !.cwd = dir]

\* the admission test of line 189
GRunning(slot) == slot.running

GMarksKeepsJob(slot, update_type, job_key, now) ==
    [slot EXCEPT !.running = TRUE, !.start_time = now, !.type = update_type,
                 !.progress = 0, !.message = <<"started">>,
                 !.success = "none"]

\* lines 199-204, 208: the marks of an accepted submission
GMarks(slot, update_type, job_key, now) ==
    [slot EXCEPT !.running = TRUE, !.start_time = now, !.type = update_type,
                 !.progress = 0, !.message = <<"started">>,
                 !.success = "none", !.job = job_key]

GJobKeyFallsBackToComplete(update_type) ==
    IF update_type \in DOMAIN JOB_EXECUTORS THEN update_type ELSE "complete"

\* line 206
GJobKey(update_type) ==
    IF update_type \in DOMAIN JOB_EXECUTORS THEN update_type ELSE "full"

\* lines 183-208 and, for a job without progress keys, 256-265.  Nothing a
\* job thread reads is written between the statements, so they are one step.
GPost(body, t) ==
    /\ mainPc = "idle"
    /\ IF body = "malformed"
       THEN \* json.loads raises
            /\ g' = GPostExcept(g)
            /\ resp' = Response("gsubmit", FALSE, "RequestFailed", <<>>, EmptyMap)
            /\ mainPc' = "reply"
            /\ UNCHANGED <<clock, runs, req>>
       ELSE LET slot == GPreLock(g, t, cwd) IN
            IF GRunning(slot)
            THEN /\ g' = slot
                 /\ resp' = Response("gsubmit", FALSE, "AlreadyRunning", <<>>, EmptyMap)
                 /\ mainPc' = "reply"
                 /\ UNCHANGED <<clock, runs, req>>
            ELSE /\ Len(runs) < MaxRuns
                 /\ clock' = clock + 1
                 /\ LET job_key == GJobKey(t)
                        nokeys == PROGRESS_GROUPS[job_key] = <<>>
                    IN /\ g' = GMarks(slot, t, job_key, clock)
                       /\ runs' = Append(runs, NewRun("global", job_key, <<>>,
                                                      JOB_EXECUTORS[job_key].callable,
                                                      IF nokeys THEN "start" ELSE "admitted"))
                       /\ IF nokeys
                          THEN /\ resp' = Response("gsubmit", TRUE, "ok", <<"t", clock>>, EmptyMap)
                               /\ mainPc' = "reply"
                               /\ req' = req
                          ELSE /\ req' = [ci |-> 1, run |-> Len(runs) + 1]
                               /\ mainPc' = "g_clear"
                               /\ resp' = resp
    /\ UNCHANGED <<kt, file, cwd, sec>>
    /\ UNCHANGED libVars

\* lines 210-211, one key per step; after the last key lines 256-265
GPostClear ==
    /\ mainPc = "g_clear"
    /\ LET w == req.run
           keys == PROGRESS_GROUPS[runs[w].job]
           r == Clear(file, keys[req.ci])
       IN IF r.raised
          THEN /\ g' = GPostExcept(g)
               /\ runs' = SetRun(w, "pc", "dropped")
               /\ resp' = Response("gsubmit", FALSE, "RequestFailed", <<>>, EmptyMap)
               /\ mainPc' = "reply"
               /\ req' = NoReq
               /\ file' = file
          ELSE /\ file' = r.file
               /\ g' = g
               /\ IF req.ci = Len(keys)
                  THEN /\ runs' = SetRun(w, "pc", "start")
                       /\ resp' = Response("gsubmit", TRUE, "ok", <<"t", clock>>, EmptyMap)
                       /\ mainPc' = "reply"
                       /\ req' = NoReq
                  ELSE /\ req' = [req EXCEPT !.ci = req.ci + 1]
                       /\ UNCHANGED <<runs, resp, mainPc>>
    /\ UNCHANGED <<kt, cwd, clock, sec>>
    /\ UNCHANGED libVars

\* the handler returned: the response is on the wire
Reply ==
    /\ mainPc = "reply"
    /\ mainPc' = "idle"
    /\ resp' = NoResp
    /\ UNCHANGED <<g, kt, file, cwd, clock, sec, runs, req>>
    /\ UNCHANGED libVars

-----------------------------------------------------------------------------
\* DataUpdateHandler.post.run_update (lines 214-253), on the job's thread

\* lines 216-217
GStart(w) ==
    /\ At(w, "global", "start")
    /\ g' = [g EXCEPT !.message = <<"msg", JOB_EXECUTORS[runs[w].job].message>>]
    /\ runs' = SetRun(w, "pc", "enter")
    /\ UNCHANGED <<kt, file, cwd, clock, sec, mainPc, req, resp>>
    /\ UNCHANGED libVars

\* lines 220-222
GEnter(w) ==
    /\ At(w, "global", "enter")
    /\ g' = [g EXCEPT !.progress_details = EmptyMap]
    /\ runs' = [runs EXCEPT ![w].pc = "call", ![w].orig = cwd]
    /\ cwd' = "cpath"
    /\ UNCHANGED <<kt, file, clock, sec, mainPc, req, resp>>
    /\ UNCHANGED libVars

\* The job callable (external): it reports progress for its keys, then
\* returns or raises.  An update that raises leaves the file as it is.
JobUpdate(w, k, u) ==
    /\ At(w, runs[w].flavor, "call")
    /\ runs[w].nupd < MaxUpdates
    /\ k \in WritesOf(runs[w].callable)
    /\ file' = Update(file, k, u[1], u[2], "fetching", "none", w).file
    /\ runs' = SetRun(w, "nupd", runs[w].nupd + 1)
    /\ UNCHANGED <<g, kt, cwd, clock, sec, mainPc, req, resp>>
    /\ UNCHANGED libVars

\* lines 224-226 / jobUpdateHandler 290-292: the callable returns, the
\* finally clause restores the saved working directory
JobReturn(w) ==
    /\ At(w, runs[w].flavor, "call")
    /\ runs' = SetRun(w, "pc", "fin_ok")
    /\ cwd' = runs[w].orig
    /\ UNCHANGED <<g, kt, file, clock, sec, mainPc, req, resp>>
    /\ UNCHANGED libVars

JobRaise(w) ==
    /\ At(w, runs[w].flavor, "call")
    /\ runs' = [runs EXCEPT ![w].pc = "fin_err", ![w].err = ErrText]
    /\ cwd' = runs[w].orig
    /\ UNCHANGED <<g, kt, file, clock, sec, mainPc, req, resp>>
    /\ UNCHANGED libVars

\* lines 230-237 and 242-249: the writes of a finalization
GFinalState(slot, details, message, success, now) ==
    LET aggregated == ComputeProgressPercent(details) IN
    [slot EXCEPT !.progress = IF aggregated # NoneV THEN aggregated ELSE 10000,
                 !.progress_details = details,
                 !.message = message,
                 !.success = success,
                 !.running = FALSE,
                 !.end_time = now]

\* the thread after its finalization block: `fin` records that it ran
Finalized(w) ==
    IF PROGRESS_GROUPS[runs[w].job] = <<>>
    THEN [EndRun(w, "done") EXCEPT ![w].fin = TRUE]
    ELSE [runs EXCEPT ![w].pc = "cleanup", ![w].ci = 1, ![w].fin = TRUE]

\* lines 229-237; an exception of _collect_progress enters the except clause
GFinalizeOk(w) ==
    /\ At(w, "global", "fin_ok")
    /\ LET c == CollectProgress(runs[w].job, file) IN
       IF c.raised
       THEN /\ runs' = [runs EXCEPT ![w].pc = "fin_err", ![w].err = "AttributeError"]
            /\ UNCHANGED <<g, clock>>
       ELSE /\ g' = GFinalState(g, c.value, <<JOB_EXECUTORS[runs[w].job].name, "done">>,
                                "true", clock)
            /\ clock' = clock + 1
            /\ runs' = Finalized(w)
    /\ UNCHANGED <<kt, file, cwd, sec, mainPc, req, resp>>
    /\ UNCHANGED libVars

\* lines 239-249; an exception raised here leaves the except clause, the
\* finally clause runs and the thread ends with the exception
GFinalizeErr(w) ==
    /\ At(w, "global", "fin_err")
    /\ LET c == CollectProgress(runs[w].job, file) IN
       IF c.raised
       THEN /\ runs' = [runs EXCEPT ![w].pc = "cleanup_dying", ![w].ci = 1]
            /\ UNCHANGED <<g, clock>>
       ELSE /\ g' = GFinalState(g, c.value,
                                <<JOB_EXECUTORS[runs[w].job].name, "failed", runs[w].err>>,
                                "false", clock)
            /\ clock' = clock + 1
            /\ runs' = Finalized(w)
    /\ UNCHANGED <<kt, file, cwd, sec, mainPc, req, resp>>
    /\ UNCHANGED libVars

\* lines 251-253, one key per step
GCleanup(w) ==
    /\ At(w, "global", "cleanup") \/ At(w, "global", "cleanup_dying")
    /\ LET keys == PROGRESS_GROUPS[runs[w].job]
           r == Clear(file, keys[runs[w].ci])
       IN IF r.raised
          THEN /\ runs' = EndRun(w, "died")
               /\ file' = file
          ELSE /\ file' = r.file
               /\ runs' = IF runs[w].ci = Len(keys)
                          THEN EndRun(w, IF runs[w].pc = "cleanup" THEN "done" ELSE "died")
                          ELSE SetRun(w, "ci", runs[w].ci + 1)
    /\ UNCHANGED <<g, kt, cwd, clock, sec, mainPc, req, resp>>
    /\ UNCHANGED libVars

-----------------------------------------------------------------------------
\* DataUpdateStatusHandler.get (lines 280-311), on the IOLoop thread

GSnapshotStoredProgress(slot, f) ==
    [running |-> slot.running, progress |-> slot.progress,
     message |-> slot.message, success |-> slot.success,
     start_time |-> slot.start_time, end_time |-> slot.end_time,
     type |-> slot.type, job |-> slot.job,
     progress_details |-> CollectProgress(slot.job, f).value]

\* lines 284-299: the snapshot returned
GSnapshot(slot, f) ==
    LET c == CollectProgress(slot.job, f)
        aggregated == ComputeProgressPercent(c.value)
    IN [running |-> slot.running,
        progress |-> IF slot.running /\ aggregated # NoneV
                     THEN aggregated ELSE slot.progress,
        message |-> slot.message,
        success |-> slot.success,
        start_time |-> slot.start_time,
        end_time |-> slot.end_time,
        type |-> slot.type,
        job |-> slot.job,
        progress_details |-> c.value]

GStatus ==
    /\ mainPc = "idle"
    /\ resp' = IF CollectProgress(g.job, file).raised
               THEN Response("gstatus", FALSE, "StatusFailed", <<>>, EmptyMap)
               ELSE Response("gstatus", TRUE, "ok", <<>>, GSnapshot(g, file))
    /\ mainPc' = "reply"
    /\ UNCHANGED <<g, kt, file, cwd, clock, sec, runs, req>>
    /\ UNCHANGED libVars

-----------------------------------------------------------------------------
\* JobUpdateHandler.post (jobUpdateHandler.py 229-336), on the IOLoop thread.
\* The handler has no await and no job thread reads what it writes before
\* the thread is started, so the whole handler is one step.

KAnyRunningNoTest(tasks) == FALSE

\* the admission test of line 247
KAnyRunning(tasks) == \E k \in DOMAIN tasks : tasks[k].running

\* lines 266-273
KNewTask(job_type, now) ==
    [running |-> TRUE, start_time |-> now, job_type |-> job_type,
     progress |-> 0, message |-> <<"started">>,
     executor |-> KJOB_EXECUTORS[job_type].name,
     success |-> "none", end_time |-> NoneV]

\* line 235
KKnown(job_type) == job_type # "" /\ job_type \in DOMAIN JOB_MAPPING

\* line 246: job_type and the second of the submission
KTaskKey(job_type, second) == <<job_type, second>>

KPost(body, job_type, adv) ==
    /\ mainPc = "idle"
    /\ mainPc' = "reply"
    /\ IF body = "malformed"
       THEN \* json.loads raises; the except clause reads task_key, which is
            \* unbound, and the handler ends with UnboundLocalError
            /\ resp' = Response("ksubmit", FALSE, "ServerError", <<>>, EmptyMap)
            /\ UNCHANGED <<kt, clock, sec, runs>>
       ELSE IF ~KKnown(job_type)
       THEN /\ resp' = Response("ksubmit", FALSE, "UnknownJob", <<>>, EmptyMap)
            /\ UNCHANGED <<kt, clock, sec, runs>>
       ELSE IF KAnyRunning(kt)
       THEN /\ resp' = Response("ksubmit", FALSE, "AlreadyRunning", <<>>, EmptyMap)
            /\ UNCHANGED <<kt, clock, sec, runs>>
       ELSE IF job_type \notin DOMAIN KJOB_EXECUTORS
       THEN /\ resp' = Response("ksubmit", FALSE, "NoExecutor", <<>>, EmptyMap)
            /\ UNCHANGED <<kt, clock, sec, runs>>
       ELSE LET task_key == KTaskKey(job_type, sec + adv) IN
            /\ Len(runs) < MaxRuns
            /\ sec + adv <= MaxSec
            /\ sec' = sec + adv
            /\ clock' = clock + 1
            /\ kt' = [k \in DOMAIN kt \cup {task_key} |->
                        IF k = task_key THEN KNewTask(job_type, clock) ELSE kt[k]]
            /\ runs' = Append(runs, NewRun("keyed", job_type, task_key,
                                           KJOB_EXECUTORS[job_type].callable, "start"))
            /\ resp' = Response("ksubmit", TRUE, "ok", task_key, EmptyMap)
    /\ UNCHANGED <<g, file, cwd, req>>
    /\ UNCHANGED libVars

\* JobUpdateHandler.post.run_job (lines 276-310), on the job's thread

\* lines 278-284
KStart(w) ==
    /\ At(w, "keyed", "start")
    /\ kt' = [kt EXCEPT ![runs[w].key].message =
                          <<"msg", KJOB_EXECUTORS[runs[w].job].message>>]
    /\ runs' = SetRun(w, "pc", "enter")
    /\ UNCHANGED <<g, file, cwd, clock, sec, mainPc, req, resp>>
    /\ UNCHANGED libVars

\* lines 287-288
KEnter(w) ==
    /\ At(w, "keyed", "enter")
    /\ runs' = [runs EXCEPT ![w].pc = "call", ![w].orig = cwd]
    /\ cwd' = "cpath"
    /\ UNCHANGED <<g, kt, file, clock, sec, mainPc, req, resp>>
    /\ UNCHANGED libVars

KFinalStateKeepsProgress(task, message, success, now) ==
    [task EXCEPT !.message = message, !.success = success,
                 !.running = FALSE, !.end_time = now]

\* lines 296-300 and 305-310: the writes of a finalization
KFinalState(task, message, success, now) ==
    [task EXCEPT !.progress = 10000, !.message = message, !.success = success,
                 !.running = FALSE, !.end_time = now]

\* lines 295-300
KFinalizeOk(w) ==
    /\ At(w, "keyed", "fin_ok")
    /\ kt' = [kt EXCEPT ![runs[w].key] =
                KFinalState(@, <<JOB_MAPPING[runs[w].job], "done">>, "true", clock)]
    /\ clock' = clock + 1
    /\ runs' = [EndRun(w, "done") EXCEPT ![w].fin = TRUE]
    /\ UNCHANGED <<g, file, cwd, sec, mainPc, req, resp>>
    /\ UNCHANGED libVars

\* lines 302-310
KFinalizeErr(w) ==
    /\ At(w, "keyed", "fin_err")
    /\ kt' = [kt EXCEPT ![runs[w].key] =
                KFinalState(@, <<KJOB_EXECUTORS[runs[w].job].name, "failed", runs[w].err>>,
                            "false", clock)]
    /\ clock' = clock + 1
    /\ runs' = [EndRun(w, "done") EXCEPT ![w].fin = TRUE]
    /\ UNCHANGED <<g, file, cwd, sec, mainPc, req, resp>>
    /\ UNCHANGED libVars

\* JobUpdateStatusHandler.get with a task_id that is in the registry, lines
\* 342-356: the fields it reports
KStatus(tasks, task_key) ==
    [running |-> tasks[task_key].running,
     progress |-> tasks[task_key].progress,
     message |-> tasks[task_key].message,
     success |-> tasks[task_key].success,
     start_time |-> tasks[task_key].start_time,
     end_time |-> tasks[task_key].end_time,
     job_type |-> tasks[task_key].job_type]

-----------------------------------------------------------------------------
Workers == 1..Len(runs)

Next ==
    \/ \E body \in Bodies, t \in GlobalTypes : GPost(body, t)
    \/ GPostClear
    \/ GStatus
    \/ \E body \in Bodies, jt \in KeyedTypes, adv \in {0, 1} : KPost(body, jt, adv)
    \/ Reply
    \/ \E w \in Workers : GStart(w)
    \/ \E w \in Workers : GEnter(w)
    \/ \E w \in Workers, k \in ProgressKeys, u \in JobUpdates : JobUpdate(w, k, u)
    \/ \E w \in Workers : JobReturn(w)
    \/ \E w \in Workers : JobRaise(w)
    \/ \E w \in Workers : GFinalizeOk(w)
    \/ \E w \in Workers : GFinalizeErr(w)
    \/ \E w \in Workers : GCleanup(w)
    \/ \E w \in Workers : KStart(w)
    \/ \E w \in Workers : KEnter(w)
    \/ \E w \in Workers : KFinalizeOk(w)
    \/ \E w \in Workers : KFinalizeErr(w)

Spec == Init /\ [][Next]_vars

-----------------------------------------------------------------------------
\* progress_tracker.py called directly: update, clear, get and get_many as
\* their callers see them, _write_all statement by statement, a failing
\* write, and the death of the process in the middle of a call.  Calls are
\* serialised by _LOCK, so one call is in progress at a time.

StoreKeys == ProgressKeys

\* arguments of update: current, total, message, success ("none": not passed)
StoreArgs ==
    {[current |-> 50, total |-> 200,   message |-> "fetching", success |-> "none"],
     [current |-> 1,  total |-> 2,     message |-> "fetching", success |-> "true"],
     [current |-> 2,  total |-> 3,     message |-> "fetching", success |-> "none"],
     [current |-> 3,  total |-> 2,     message |-> "fetching", success |-> "none"],
     [current |-> 1,  total |-> 0,     message |-> "waiting",  success |-> "false"],
     [current |-> 3,  total |-> NoneV, message |-> "waiting",  success |-> "none"]}

StoreCall(op, key, args, pc, doc, ret, value) ==
    [op |-> op, key |-> key, args |-> args, pc |-> pc, doc |-> doc,
     ret |-> ret, value |-> value]

\* a call can begin: none is in progress
CallFree == call.pc \in {"idle", "done"}

\* open(tmp_path, 'w') of _write_all: the temporary file exists and is empty,
\* and while json.dump writes it holds an incomplete, unparseable text
Truncated == [kind |-> "garbage", data |-> EmptyMap]

OpenInPlace(f, t) == [file |-> Truncated, tmp |-> t]

\* _write_all lines 41-42: the file it opens for writing
OpenForWrite(f, t) == [file |-> f, tmp |-> Truncated]

\* _write_all line 44: os.replace(tmp_path, path)
Replace(f, t) == [file |-> t, tmp |-> NoTmp]

\* update, lines 57-71: read the store and build the document to write
UpdateCall(k, a) ==
    /\ CallFree
    /\ LET r == Update(file, k, a.current, a.total, a.message, a.success, 0) IN
       call' = IF r.raised
               THEN StoreCall("update", k, a, "done", NoTmp, "AttributeError", EmptyMap)
               ELSE StoreCall("update", k, a, "write", r.file, "none", EmptyMap)
    /\ UNCHANGED <<file, tmp, cfg>>
    /\ UNCHANGED webVars

\* clear, lines 76-81: a store without the key is left as it is
ClearCall(k) ==
    /\ CallFree
    /\ LET r == Clear(file, k) IN
       call' = IF r.raised
               THEN StoreCall("clear", k, EmptyMap, "done", NoTmp, "TypeError", EmptyMap)
               ELSE IF r.file = file
               THEN StoreCall("clear", k, EmptyMap, "done", NoTmp, "ok", EmptyMap)
               ELSE StoreCall("clear", k, EmptyMap, "write", r.file, "none", EmptyMap)
    /\ UNCHANGED <<file, tmp, cfg>>
    /\ UNCHANGED webVars

\* _write_all lines 41-42: the temporary file is opened
OpenTmp ==
    /\ call.pc = "write"
    /\ LET o == OpenForWrite(file, tmp) IN file' = o.file /\ tmp' = o.tmp
    /\ call' = [call EXCEPT !.pc = "dump"]
    /\ UNCHANGED cfg
    /\ UNCHANGED webVars

\* _write_all line 43: json.dump has written the whole document
DumpTmp ==
    /\ call.pc = "dump"
    /\ tmp' = call.doc
    /\ file' = file
    /\ call' = [call EXCEPT !.pc = "replace"]
    /\ UNCHANGED cfg
    /\ UNCHANGED webVars

\* _write_all line 44, and the call returns
ReplaceTmp ==
    /\ call.pc = "replace"
    /\ LET r == Replace(file, tmp) IN file' = r.file /\ tmp' = r.tmp
    /\ call' = [call EXCEPT !.pc = "done", !.ret = "ok"]
    /\ UNCHANGED cfg
    /\ UNCHANGED webVars

\* _ensure_parent, open, json.dump or os.replace raises OSError: neither
\* _write_all nor update nor clear has an except clause, the caller gets it
StoreFault ==
    /\ call.pc \in {"write", "dump", "replace"}
    /\ call' = [call EXCEPT !.pc = "done", !.ret = "OSError"]
    /\ UNCHANGED <<file, tmp, cfg>>
    /\ UNCHANGED webVars

\* the process dies inside the call and is started again: the files stay
Crash ==
    /\ call.pc \in {"write", "dump", "replace"}
    /\ call' = [op |-> "restart", pc |-> "idle"]
    /\ UNCHANGED <<file, tmp, cfg>>
    /\ UNCHANGED webVars

\* get, lines 86-90
GetCall(k) ==
    /\ CallFree
    /\ LET r == Get(file, k) IN
       call' = StoreCall("get", k, EmptyMap, "done", NoTmp,
                         IF r.raised THEN "AttributeError" ELSE "ok",
                         IF r.present THEN <<r.value>> ELSE <<>>)
    /\ UNCHANGED <<file, tmp, cfg>>
    /\ UNCHANGED webVars

\* get_many, lines 94-96
GetManyCall(ks) ==
    /\ CallFree
    /\ LET r == GetMany(file, ks) IN
       call' = StoreCall("get_many", ks, EmptyMap, "done", NoTmp,
                         IF r.raised THEN "AttributeError" ELSE "ok", r.value)
    /\ UNCHANGED <<file, tmp, cfg>>
    /\ UNCHANGED webVars

StoreNext ==
    \/ \E k \in StoreKeys, a \in StoreArgs : UpdateCall(k, a)
    \/ \E k \in StoreKeys : ClearCall(k)
    \/ \E k \in StoreKeys : GetCall(k)
    \/ \E ks \in SUBSET StoreKeys : GetManyCall(ks)
    \/ OpenTmp
    \/ DumpTmp
    \/ ReplaceTmp
    \/ StoreFault
    \/ Crash

\* the store of a fresh installation: no file, or one that cannot be parsed
StoreInit ==
    /\ WebInit
    /\ file \in {[kind |-> k, data |-> EmptyMap] : k \in {"missing", "garbage"}}
    /\ tmp = NoTmp
    /\ call = NoCall
    /\ cfg = NoCfg

StoreSpec == StoreInit /\ [][StoreNext]_vars

\* the same calls on any store file, one holding a JSON document that is no
\* mapping included
AnyFileSpec == Init /\ [][StoreNext]_vars

-----------------------------------------------------------------------------
\* dataUpdateHandler._compute_progress_percent applied to a mapping of
\* sub-task key to record (the dict branch, the one its callers take)

AggKeys == {"stock_spot", "fund_etf", "fetch_a"}

\* records as they can stand in a details mapping: progress, current, total
AggRecords ==
    {[progress |-> 2500,  current |-> 50, total |-> 200],
     [progress |-> 0,     current |-> 0,  total |-> 2],
     [progress |-> 3333,  current |-> 1,  total |-> 3],
     [progress |-> 10000, current |-> 2,  total |-> 2],
     [progress |-> NoneV, current |-> 50, total |-> 200],
     [progress |-> NoneV, current |-> 3,  total |-> NoneV],
     [progress |-> NoneV, current |-> 1,  total |-> 0]}

AggInputs == UNION {[ks -> AggRecords] : ks \in SUBSET AggKeys}

AggregateCall ==
    /\ call.op = "aggregate" /\ call.pc = "idle"
    /\ call' = [call EXCEPT !.pc = "done", !.value = ComputeProgressPercent(call.args)]
    /\ UNCHANGED <<file, tmp, cfg>>
    /\ UNCHANGED webVars

AggInit ==
    /\ WebInit
    /\ file = NoTmp
    /\ tmp = NoTmp
    /\ call \in {[op |-> "aggregate", pc |-> "idle", args |-> d, value |-> NoneV] :
                   d \in AggInputs}
    /\ cfg = NoCfg

AggSpec == AggInit /\ [][AggregateCall]_vars

-----------------------------------------------------------------------------
\* configHandler._merge_job_schedules.  A cron string is [fields, pad]: fields
\* is what str.split() makes of it (a sequence of fields, each a sequence of
\* characters; <<>> for a text with nothing but white space in it), pad says
\* that white space surrounds the text.
\* `enabled` is "true", "false" or "absent" (no such key in the entry).

MAX_SCHEDULE_ENTRIES == 20

Cron(fields, pad) == [fields |-> fields, pad |-> pad]
ScheduleEntry(cron, description, enabled) ==
    [cron |-> cron, description |-> description, enabled |-> enabled]

\* str.strip()
Strip(cron) == [cron EXCEPT !.pad = FALSE]

\* \d of a str pattern: every character of Unicode category Nd
AsciiDigits == {"0", "1", "2", "3", "4", "5", "6", "7", "8", "9"}
UnicodeDigits == AsciiDigits \cup {"ARABIC-INDIC DIGIT THREE"}

\* line 79: ^([\d*/,-]+)$
CRON_FIELD_PATTERN(part) ==
    /\ part # <<>>
    /\ \A i \in DOMAIN part : part[i] \in UnicodeDigits \cup {"*", "/", ",", "-"}

\* lines 82-86
ValidateCronExpression(cron) ==
    /\ Len(cron.fields) = 5
    /\ \A i \in DOMAIN cron.fields : CRON_FIELD_PATTERN(cron.fields[i])

\* `not key`: the empty string
IsEmpty(cron) == cron.fields = <<>> /\ ~cron.pad

NormalizeAbsentDisabled(entry) ==
    LET cron == Strip(entry.cron)
        enabled == IF entry.enabled = "true" THEN "true" ELSE "false"
    IN [raised |-> ~IsEmpty(cron) /\ ~ValidateCronExpression(cron),
        entry |-> ScheduleEntry(cron, entry.description, enabled)]

\* normalize, lines 93-99: [raised, entry]
Normalize(entry) ==
    LET cron == Strip(entry.cron)
        enabled == IF entry.enabled = "false" THEN "false" ELSE "true"
    IN [raised |-> ~IsEmpty(cron) /\ ~ValidateCronExpression(cron),
        entry |-> ScheduleEntry(cron, entry.description, enabled)]

MergeKeyRaw(item, normalized) == item.cron

\* line 104: the deduplication key
MergeKey(item, normalized) == normalized.cron

\* lines 102-108 for one collection: [raised, seen, merged]
RECURSIVE MergeItems(_, _, _)
MergeItems(items, seen, merged) ==
    IF items = <<>> THEN [raised |-> FALSE, seen |-> seen, merged |-> merged]
    ELSE LET n == Normalize(Head(items)) IN
         IF n.raised THEN [raised |-> TRUE, seen |-> seen, merged |-> merged]
         ELSE LET key == MergeKey(Head(items), n.entry) IN
              IF IsEmpty(key) \/ key \in seen
              THEN MergeItems(Tail(items), seen, merged)
              ELSE MergeItems(Tail(items), seen \cup {key}, Append(merged, n.entry))

MergeJobSchedulesUncapped(existing, incoming) ==
    LET a == MergeItems(existing, {}, <<>>) IN
    IF a.raised THEN [raised |-> TRUE, list |-> <<>>]
    ELSE LET b == MergeItems(incoming, a.seen, a.merged) IN
         IF b.raised THEN [raised |-> TRUE, list |-> <<>>]
         ELSE [raised |-> FALSE, list |-> b.merged]

\* _merge_job_schedules, lines 89-109: [raised, list]
MergeJobSchedules(existing, incoming) ==
    LET a == MergeItems(existing, {}, <<>>) IN
    IF a.raised THEN [raised |-> TRUE, list |-> <<>>]
    ELSE LET b == MergeItems(incoming, a.seen, a.merged) IN
         IF b.raised THEN [raised |-> TRUE, list |-> <<>>]
         ELSE [raised |-> FALSE,
               list |-> IF Len(b.merged) > MAX_SCHEDULE_ENTRIES
                        THEN SubSeq(b.merged, 1, MAX_SCHEDULE_ENTRIES)
                        ELSE b.merged]

\* _build_cron_line, lines 112-114: the cron text and then the command
BuildCronLine(entry) ==
    [cron |-> entry.cron.fields,
     text |-> "PYTHON_BIN JOB_SCRIPT >> CRON_LOG_FILE 2>&1"]

CommentLine(text) == [cron |-> <<>>, text |-> text]

RECURSIVE RenderEntriesAll(_)
RenderEntriesAll(entries) ==
    IF entries = <<>> THEN <<>>
    ELSE <<BuildCronLine(Head(entries))>> \o RenderEntriesAll(Tail(entries))

\* lines 123-125: entry.get('enabled', True)
RECURSIVE RenderEntries(_)
RenderEntries(entries) ==
    IF entries = <<>> THEN <<>>
    ELSE (IF Head(entries).enabled # "false"
          THEN <<BuildCronLine(Head(entries))>> ELSE <<>>)
         \o RenderEntries(Tail(entries))

\* lines 118-122
CronHeader ==
    <<CommentLine("# stock data scheduled jobs"),
      CommentLine("# generated by the system, do not edit by hand"),
      CommentLine("")>>

\* _render_cron_file, lines 117-128: the lines of the text
RenderCronFile(entries) ==
    LET lines == CronHeader \o RenderEntries(entries) IN
    IF Len(lines) = 3
    THEN Append(lines, CommentLine("# (no execute_daily_job schedule configured, disabled by default)"))
    ELSE lines

\* schedule lists to merge: a run of entries with the cron texts from..to,
\* followed by up to two entries that repeat, pad, empty or spoil a text
Digits(n) ==
    LET d == <<"0", "1", "2", "3", "4", "5", "6", "7", "8", "9">> IN
    IF n < 10 THEN <<d[n + 1]>> ELSE <<d[(n \div 10) + 1], d[(n % 10) + 1]>>

\* the text "<n> 9 * * 1-5"
CronText(n) == <<Digits(n), <<"9">>, <<"*">>, <<"*">>, <<"1", "-", "5">>>>

RunOf(from, to) ==
    [i \in 1..(to - from + 1) |->
        ScheduleEntry(Cron(CronText(from + i - 1), FALSE), "run", "absent")]

TailEntries ==
    {ScheduleEntry(Cron(CronText(1), TRUE), "again", "false"),
     ScheduleEntry(Cron(CronText(21), FALSE), "late", "true"),
     ScheduleEntry(Cron(<<>>, TRUE), "empty", "absent"),
     ScheduleEntry(Cron(<<<<"0">>, <<"9">>, <<"*">>, <<"*">>>>, FALSE),
                   "four fields", "absent"),
     ScheduleEntry(Cron(<<<<"@", "d", "a", "i", "l", "y">>>>, FALSE),
                   "letters", "absent"),
     ScheduleEntry(Cron(<<<<"ARABIC-INDIC DIGIT THREE">>, <<"9">>, <<"*">>,
                          <<"*">>, <<"*">>>>, FALSE), "other digits", "true")}

Tails == {<<>>} \cup {<<e>> : e \in TailEntries}
              \cup {<<e, f>> : e \in TailEntries, f \in TailEntries}

RunEnds == {<<1, 0>>, <<1, 2>>, <<1, 19>>, <<1, 20>>, <<3, 24>>}

ScheduleLists == {RunOf(r[1], r[2]) \o t : r \in RunEnds, t \in Tails}

\* merge(existing, incoming)
MergeCall ==
    /\ cfg.pc = "input"
    /\ cfg' = [cfg EXCEPT !.pc = "merged",
                          !.merged = MergeJobSchedules(cfg.existing, cfg.incoming)]
    /\ UNCHANGED <<file, tmp, call>>
    /\ UNCHANGED webVars

\* merge(merged, incoming): the result is merged with the same list again
MergeAgainCall ==
    /\ cfg.pc = "merged"
    /\ ~cfg.merged.raised
    /\ cfg' = [cfg EXCEPT !.pc = "again",
                          !.again = MergeJobSchedules(cfg.merged.list, cfg.incoming)]
    /\ UNCHANGED <<file, tmp, call>>
    /\ UNCHANGED webVars

\* _render_cron_file(merged)
RenderCall ==
    /\ cfg.pc = "merged"
    /\ ~cfg.merged.raised
    /\ cfg' = [cfg EXCEPT !.pc = "rendered",
                          !.rendered = RenderCronFile(cfg.merged.list)]
    /\ UNCHANGED <<file, tmp, call>>
    /\ UNCHANGED webVars

MergeNext == MergeCall \/ MergeAgainCall \/ RenderCall

MergeInit ==
    /\ WebInit
    /\ file = NoTmp
    /\ tmp = NoTmp
    /\ call = NoCall
    /\ cfg \in {[pc |-> "input", existing |-> a, incoming |-> b,
                  merged |-> [raised |-> FALSE, list |-> <<>>],
                  again |-> [raised |-> FALSE, list |-> <<>>],
                  rendered |-> <<>>] :
                  a \in ScheduleLists, b \in ScheduleLists}

MergeSpec == MergeInit /\ [][MergeNext]_vars

-----------------------------------------------------------------------------
\* configHandler: the configuration document, the schedule file and the
\* handlers.  A section value is a JSON object (t = "dict", v its members) or
\* any other JSON value (t = "other", s its text); scalars are their text.

JsonDict(v) == [t |-> "dict", v |-> v, s |-> ""]
JsonOther(s) == [t |-> "other", v |-> EmptyMap, s |-> s]

\* lines 39-45
DEFAULT_AI_CONFIG ==
    [apiKey |-> "", baseUrl |-> "https://api.openai.com/v1",
     model |-> "gpt-3.5-turbo", temperature |-> "0.7", maxTokens |-> "2000"]

\* lines 47-66
DEFAULT_CONFIG ==
    [proxy |-> JsonDict([authKey |-> "", password |-> "", poolSize |-> "5",
                         timeout |-> "10", cacheTime |-> "24"]),
     ai |-> JsonDict(DEFAULT_AI_CONFIG),
     data_source |-> JsonDict([tushareToken |-> "", refreshInterval |-> "60",
                               retentionDays |-> "365",
                               maxConcurrentRequests |-> "5",
                               requestTimeout |-> "30"]),
     job_schedules |-> JsonDict([execute_daily_job |-> <<>>])]

\* dict.update and dict.get
DictUpdate(m, u) ==
    [k \in DOMAIN m \cup DOMAIN u |-> IF k \in DOMAIN u THEN u[k] ELSE m[k]]
DictGet(m, k, default) == IF k \in DOMAIN m THEN m[k] ELSE default

\* line 151: value.get('execute_daily_job', []) of a schedule section
IncomingSchedules(config) ==
    IF "job_schedules" \in DOMAIN config /\ config["job_schedules"].t = "dict"
    THEN DictGet(config["job_schedules"].v, "execute_daily_job", <<>>)
    ELSE <<>>

\* lines 147-158, m being what _merge_job_schedules gives in line 152
MergedSections(config, m) ==
    [raised |-> /\ "job_schedules" \in DOMAIN config
                /\ config["job_schedules"].t = "dict"
                /\ m.raised,
     doc |-> [section \in DOMAIN DEFAULT_CONFIG \cup DOMAIN config |->
                IF section \notin DOMAIN config THEN DEFAULT_CONFIG[section]
                ELSE IF config[section].t = "dict" /\ section \in DOMAIN DEFAULT_CONFIG
                THEN IF section = "job_schedules"
                     THEN JsonDict([execute_daily_job |-> m.list])
                     ELSE JsonDict(DictUpdate(DEFAULT_CONFIG[section].v,
                                              config[section].v))
                ELSE config[section]]]

\* _merge_with_default, lines 146-158: [raised, doc]
MergeWithDefault(config) ==
    MergedSections(config,
        MergeJobSchedules(DictGet(DEFAULT_CONFIG["job_schedules"].v,
                                  "execute_daily_job", <<>>),
                          IncomingSchedules(config)))

\* _write_config_file, lines 184-187
WriteConfigFile(doc) == [kind |-> "object", doc |-> doc]

\* line 181: what the read returns, m being the answer of _merge_with_default
ReadMerged(conf, m) ==
    [raised |-> m.raised,
     doc |-> IF m.raised THEN EmptyMap ELSE m.doc,
     conf |-> conf]

\* _read_config_file, lines 161-181: [raised, doc, conf].  A file that is
\* missing, no JSON text or no JSON object is written anew from the defaults;
\* a file that is no UTF-8 text raises UnicodeDecodeError, which line 172
\* does not catch.
ReadConfigFile(conf) ==
    IF conf.kind \in {"missing", "garbage", "nonobject"}
    THEN [raised |-> FALSE, doc |-> DEFAULT_CONFIG,
          conf |-> WriteConfigFile(DEFAULT_CONFIG)]
    ELSE IF conf.kind = "undecodable"
    THEN [raised |-> TRUE, doc |-> EmptyMap, conf |-> conf]
    ELSE ReadMerged(conf, MergeWithDefault(conf.doc))

\* _update_cron_file, lines 131-139: the schedule file after the call
UpdateCronFile(entries) == [kind |-> "text", lines |-> RenderCronFile(entries)]

\* schedule entries of request bodies and of configuration files
DailyEntry == ScheduleEntry(Cron(CronText(1), FALSE), "daily", "absent")
WeeklyEntry == ScheduleEntry(Cron(CronText(2), TRUE), "weekly", "false")
LettersEntry ==
    ScheduleEntry(Cron(<<<<"@", "d", "a", "i", "l", "y">>>>, FALSE), "letters", "absent")
OtherDigitsEntry ==
    ScheduleEntry(Cron(<<<<"ARABIC-INDIC DIGIT THREE">>, <<"9">>, <<"*">>,
                         <<"*">>, <<"*">>>>, FALSE), "other digits", "true")

ConfigLists ==
    {<<>>, <<DailyEntry>>, <<WeeklyEntry>>, <<DailyEntry, LettersEntry>>,
     <<DailyEntry, OtherDigitsEntry>>}

\* request bodies: ok says that json.loads accepts the body
ConfigBody(ok, config_type, config_data) ==
    [ok |-> ok, config_type |-> config_type, config_data |-> config_data]

ConfigBodies ==
    {ConfigBody(FALSE, "", JsonDict(EmptyMap)),
     ConfigBody(TRUE, "", JsonDict(EmptyMap)),
     ConfigBody(TRUE, "proxy", JsonDict([timeout |-> "20"])),
     ConfigBody(TRUE, "proxy", JsonDict([poolSize |-> "9"])),
     ConfigBody(TRUE, "proxy", JsonOther("5")),
     ConfigBody(TRUE, "custom", JsonDict([x |-> "1"]))}
    \cup {ConfigBody(TRUE, "job_schedules", JsonDict([execute_daily_job |-> l])) :
             l \in ConfigLists}

\* contents of system_config.json before the service starts
ConfigFiles ==
    {[kind |-> k, doc |-> EmptyMap] : k \in {"missing", "garbage", "nonobject", "undecodable"}}
    \cup {WriteConfigFile(d) :
             d \in {EmptyMap,
                     [proxy |-> JsonDict([poolSize |-> "9"])],
                     [proxy |-> JsonOther("5")],
                     [custom |-> JsonDict([x |-> "1"])],
                     [job_schedules |-> JsonDict([execute_daily_job |-> <<WeeklyEntry>>])],
                     [job_schedules |-> JsonDict([execute_daily_job |-> <<LettersEntry>>])]}}

NoCron == [kind |-> "missing", lines |-> <<>>]
NoResult ==
    [handler |-> "none", body |-> ConfigBody(FALSE, "", JsonDict(EmptyMap)),
     success |-> FALSE, data |-> JsonOther("")]
ConfigResult(handler, body, success, data) ==
    [handler |-> handler, body |-> body, success |-> success, data |-> data]

\* the two post handlers, lines 299-316 and 346-361, give [conf, cron,
\* success].  withCron tells ConfigHandler.post, which calls
\* _update_cron_file, from SaveConfigHandler.post, which does not; cronFault
\* says that writing the schedule file raises.

\* lines 310-313 (357-358): current is written, then the schedule file
SaveWritten(current, cron, body, withCron, cronFault) ==
    IF ~withCron \/ body.config_type # "job_schedules"
    THEN [conf |-> WriteConfigFile(current), cron |-> cron, success |-> TRUE]
    ELSE IF current["job_schedules"].t # "dict" \/ cronFault
    THEN [conf |-> WriteConfigFile(current), cron |-> cron, success |-> FALSE]
    ELSE [conf |-> WriteConfigFile(current),
          cron |-> UpdateCronFile(DictGet(current["job_schedules"].v,
                                          "execute_daily_job", <<>>)),
          success |-> TRUE]

\* lines 308-309 (355-356), r being what _read_config_file gave and m the
\* answer of _merge_with_default({config_type: config_data})
SaveMerged(r, m, cron, body, withCron, cronFault) ==
    IF m.raised THEN [conf |-> r.conf, cron |-> cron, success |-> FALSE]
    ELSE SaveWritten([k \in DOMAIN r.doc \cup {body.config_type} |->
                        IF k = body.config_type
                        THEN m.doc[body.config_type] ELSE r.doc[k]],
                     cron, body, withCron, cronFault)

\* line 307 (354)
SaveRead(r, cron, body, withCron, cronFault) ==
    IF r.raised THEN [conf |-> r.conf, cron |-> cron, success |-> FALSE]
    ELSE SaveMerged(r,
                    MergeWithDefault([k \in {body.config_type} |-> body.config_data]),
                    cron, body, withCron, cronFault)

\* lines 300-306 (347-353)
SaveConfig(conf, cron, body, withCron, cronFault) ==
    IF ~body.ok \/ body.config_type = ""
    THEN [conf |-> conf, cron |-> cron, success |-> FALSE]
    ELSE SaveRead(ReadConfigFile(conf), cron, body, withCron, cronFault)

\* lines 288-293: what the handler answers, r being what the read gave
ConfigGetResult(r, config_type) ==
    ConfigResult("ConfigHandler.get",
                 ConfigBody(TRUE, config_type, JsonDict(EmptyMap)),
                 ~r.raised,
                 IF r.raised THEN JsonOther("")
                 ELSE IF config_type = "all" THEN JsonDict(r.doc)
                 ELSE DictGet(r.doc, config_type, JsonDict(EmptyMap)))

\* lines 330-331
GetConfigResult(r) ==
    ConfigResult("GetConfigHandler.get",
                 ConfigBody(TRUE, "all", JsonDict(EmptyMap)),
                 ~r.raised,
                 IF r.raised THEN JsonOther("") ELSE JsonDict(r.doc))

\* the configuration after a handler that read it and answered
AfterRead(r, result) == [cfg EXCEPT !.conf = r.conf, !.result = result]

\* the configuration after a post handler
AfterSave(r, handler, body) ==
    [cfg EXCEPT !.conf = r.conf, !.cron = r.cron,
                !.result = ConfigResult(handler, body, r.success, JsonOther(""))]

\* ConfigHandler.get, lines 286-297
ConfigGet(config_type) ==
    /\ cfg.pc = "config"
    /\ cfg' = AfterRead(ReadConfigFile(cfg.conf),
                        ConfigGetResult(ReadConfigFile(cfg.conf), config_type))
    /\ UNCHANGED <<file, tmp, call>>
    /\ UNCHANGED webVars

\* GetConfigHandler.get, lines 328-335
GetConfig ==
    /\ cfg.pc = "config"
    /\ cfg' = AfterRead(ReadConfigFile(cfg.conf),
                        GetConfigResult(ReadConfigFile(cfg.conf)))
    /\ UNCHANGED <<file, tmp, call>>
    /\ UNCHANGED webVars

\* ConfigHandler.post, lines 299-316
ConfigPost(body, cronFault) ==
    /\ cfg.pc = "config"
    /\ cfg' = AfterSave(SaveConfig(cfg.conf, cfg.cron, body, TRUE, cronFault),
                        "ConfigHandler.post", body)
    /\ UNCHANGED <<file, tmp, call>>
    /\ UNCHANGED webVars

\* SaveConfigHandler.post, lines 346-361
SaveConfigPost(body) ==
    /\ cfg.pc = "config"
    /\ cfg' = AfterSave(SaveConfig(cfg.conf, cfg.cron, body, FALSE, FALSE),
                        "SaveConfigHandler.post", body)
    /\ UNCHANGED <<file, tmp, call>>
    /\ UNCHANGED webVars

ConfigNext ==
    \/ \E config_type \in {"all", "proxy"} : ConfigGet(config_type)
    \/ GetConfig
    \/ \E body \in ConfigBodies : \E cronFault \in BOOLEAN : ConfigPost(body, cronFault)
    \/ \E body \in ConfigBodies : SaveConfigPost(body)

ConfigInit ==
    /\ WebInit
    /\ file = NoTmp
    /\ tmp = NoTmp
    /\ call = NoCall
    /\ cfg \in {[pc |-> "config", conf |-> c, cron |-> NoCron, result |-> NoResult] :
                  c \in ConfigFiles}

ConfigSpec == ConfigInit /\ [][ConfigNext]_vars

-----------------------------------------------------------------------------
\* progress_tracker.py called from several threads at once: every call is a
\* `with _LOCK:` block around _read_all, the change of the document and
\* _write_all, taken one statement at a time.  cfg holds the lock and the
\* position and locals of every calling thread.

\* threading.RLock(): the owning thread and its recursion level
FreeRLock == [owner |-> NoneV, count |-> 0]

RLockCanAcquireAlways(l, t) == TRUE

\* `with _LOCK:` can be entered by t: the lock is free or t owns it
RLockCanAcquire(l, t) == l.owner = NoneV \/ l.owner = t

\* entering `with _LOCK:`
RLockAcquire(l, t) == [owner |-> t, count |-> l.count + 1]

RLockReleaseKeeps(l, t) == l

\* leaving `with _LOCK:`, by return or by exception
RLockRelease(l, t) ==
    IF l.count <= 1 THEN FreeRLock ELSE [owner |-> l.owner, count |-> l.count - 1]

\* the threads that call the store and the key each of them passes
ConcThreads == {1, 2, 3}
ConcKeys == <<"stock_spot", "fund_etf", "stock_hist">>

\* the keyword arguments thread t passes to update
ConcArgs(t) == [current |-> t, total |-> 4, message |-> "fetching", success |-> "none"]

\* the document update would write, from the document it has read (lines 60-71)
ConcUpdated(t, data) ==
    Update(data, ConcKeys[t], ConcArgs(t).current, ConcArgs(t).total,
           ConcArgs(t).message, ConcArgs(t).success, t).file

\* the document clear would write, from the document it has read (line 81)
ConcCleared(t, data) == Clear(data, ConcKeys[t]).file

ConcAt(t, op, pc) ==
    cfg.pc = "conc" /\ cfg.th[t].pc = pc /\ (op = "any" \/ cfg.th[t].op = op)

ConcStep(t, pc, data, lock) ==
    [cfg EXCEPT !.th[t].pc = pc, !.th[t].data = data, !.lock = lock]

\* lines 57 and 76: the thread enters `with _LOCK:`
ConcAcquire(t) ==
    /\ ConcAt(t, "any", "begin")
    /\ RLockCanAcquire(cfg.lock, t)
    /\ cfg' = ConcStep(t, "locked", cfg.th[t].data, RLockAcquire(cfg.lock, t))
    /\ UNCHANGED <<file, tmp, call>>
    /\ UNCHANGED webVars

\* update, lines 58-59: data = _read_all(path)
ConcUpdateRead(t) ==
    /\ ConcAt(t, "update", "locked")
    /\ cfg' = ConcStep(t, "read", ReadAll(file), cfg.lock)
    /\ UNCHANGED <<file, tmp, call>>
    /\ UNCHANGED webVars

\* clear, lines 77-79: return when there is no file, else data = _read_all(path)
ConcClearRead(t) ==
    /\ ConcAt(t, "clear", "locked")
    /\ cfg' = IF file.kind = "missing"
              THEN ConcStep(t, "done", NoTmp, RLockRelease(cfg.lock, t))
              ELSE ConcStep(t, "read", ReadAll(file), cfg.lock)
    /\ UNCHANGED <<file, tmp, call>>
    /\ UNCHANGED webVars

\* update, lines 60-72 and 41-43: the record is set in the local document
\* and _write_all dumps the document into the temporary file
ConcUpdateDump(t) ==
    /\ ConcAt(t, "update", "read")
    /\ tmp' = ConcUpdated(t, cfg.th[t].data)
    /\ cfg' = ConcStep(t, "dumped", ConcUpdated(t, cfg.th[t].data), cfg.lock)
    /\ UNCHANGED <<file, call>>
    /\ UNCHANGED webVars

\* clear, lines 80-82 and 41-43: a key that is present is popped and the
\* document dumped; for an absent key the call returns
ConcClearDump(t) ==
    /\ ConcAt(t, "clear", "read")
    /\ IF ConcKeys[t] \in DOMAIN cfg.th[t].data.data
       THEN /\ tmp' = ConcCleared(t, cfg.th[t].data)
            /\ cfg' = ConcStep(t, "dumped", ConcCleared(t, cfg.th[t].data), cfg.lock)
       ELSE /\ tmp' = tmp
            /\ cfg' = ConcStep(t, "done", NoTmp, RLockRelease(cfg.lock, t))
    /\ UNCHANGED <<file, call>>
    /\ UNCHANGED webVars

\* line 44: os.replace(tmp_path, path), then the `with` block is left.  With
\* no temporary file os.replace raises and the call ends with the exception.
ConcReplace(t) ==
    /\ ConcAt(t, "any", "dumped")
    /\ IF tmp.kind = "missing"
       THEN /\ UNCHANGED <<file, tmp>>
            /\ cfg' = ConcStep(t, "raised", NoTmp, RLockRelease(cfg.lock, t))
       ELSE /\ file' = tmp
            /\ tmp' = NoTmp
            /\ cfg' = ConcStep(t, "done", NoTmp, RLockRelease(cfg.lock, t))
    /\ call' = call
    /\ UNCHANGED webVars

ConcNext ==
    \/ \E t \in ConcThreads : ConcAcquire(t)
    \/ \E t \in ConcThreads : ConcUpdateRead(t)
    \/ \E t \in ConcThreads : ConcClearRead(t)
    \/ \E t \in ConcThreads : ConcUpdateDump(t)
    \/ \E t \in ConcThreads : ConcClearDump(t)
    \/ \E t \in ConcThreads : ConcReplace(t)

\* The calls start from no file or from a document holding records, left
\* by earlier calls, under some of the keys; every thread is about to make
\* one call, update or clear, on its own key.
ConcInit ==
    /\ WebInit
    /\ file \in {[kind |-> "missing", data |-> EmptyMap]} \cup
                {[kind |-> "map",
                  data |-> [k \in S |-> NewRecord("unset", 4, 4, "fetching", "true", 0)]] :
                   S \in SUBSET Range(ConcKeys)}
    /\ tmp = NoTmp
    /\ call = NoCall
    /\ \E ops \in [ConcThreads -> {"update", "clear"}] :
          cfg = [pc |-> "conc", lock |-> FreeRLock, init |-> file,
                 th |-> [t \in ConcThreads |-> [op |-> ops[t], pc |-> "begin", data |-> NoTmp]]]

ConcSpec == ConcInit /\ [][ConcNext]_vars

-----------------------------------------------------------------------------
\* The two orchestrators and the Progress Store with their locks, one lock
\* operation at a time: dataUpdateHandler._task_lock ("task"),
\* jobUpdateHandler._task_lock ("ktask") and progress_tracker._LOCK
\* ("store").  Thread 0 is the IOLoop thread, thread w >= 1 runs job w.
\* cfg holds the three locks and the update_type / job_type of the request.

\* threading.Lock(): the thread that holds it, NoneV when free
FreeLock == NoneV

\* `with _task_lock:` can be entered: nobody holds the lock, t included
LockCanAcquire(l, t) == l = NoneV

\* entering `with _task_lock:`
LockAcquire(l, t) == t

LockReleaseKeeps(l, t) == l

\* leaving `with _task_lock:`, by the end of the block, return or exception
LockRelease(l, t) == FreeLock

\* the thread that holds the named lock
Holder(name) == IF name = "store" THEN cfg.store.owner ELSE cfg[name]

CanTake(name, t) ==
    IF name = "store" THEN RLockCanAcquire(cfg.store, t)
    ELSE LockCanAcquire(cfg[name], t)

Taken(c, name, t) ==
    IF name = "store" THEN [c EXCEPT !.store = RLockAcquire(c.store, t)]
    ELSE [c EXCEPT ![name] = LockAcquire(c[name], t)]

Released(c, name, t) ==
    IF name = "store" THEN [c EXCEPT !.store = RLockRelease(c.store, t)]
    ELSE [c EXCEPT ![name] = LockRelease(c[name], t)]

\* The lock the IOLoop thread is about to enter at each position where a
\* handler reaches a `with` block or a Progress Store call
MainWants ==
    [gp_lock |-> "task", gp_clear |-> "store", gx_lock |-> "task",
     gs_lock |-> "task", gs_store |-> "store",
     kp_lock |-> "ktask", kx_lock |-> "ktask", ks_lock |-> "ktask"]

MainEntered ==
    [gp_lock |-> "gp_in", gp_clear |-> "gp_clear_in", gx_lock |-> "gx_in",
     gs_lock |-> "gs_store", gs_store |-> "gs_read",
     kp_lock |-> "kp_in", kx_lock |-> "kx_in", ks_lock |-> "ks_in"]

\* The lock a job thread is about to enter: its task lock before the message
\* and the finalization, the store lock in a Progress Store call (of the
\* callable, of _collect_progress inside the finalization, of the cleanup)
JobWants(flavor, pc) ==
    IF pc \in {"start", "fin_ok", "fin_err"}
    THEN IF flavor = "global" THEN "task" ELSE "ktask"
    ELSE IF pc \in {"upd", "cleanup", "cleanup_dying"} THEN "store"
    ELSE IF pc \in {"fin_ok_in", "fin_err_in"} /\ flavor = "global" THEN "store"
    ELSE "none"

JobEntered ==
    [start |-> "msg", upd |-> "upd_in", fin_ok |-> "fin_ok_in",
     fin_err |-> "fin_err_in", fin_ok_in |-> "fin_ok_read",
     fin_err_in |-> "fin_err_read", cleanup |-> "cleanup_in",
     cleanup_dying |-> "cleanup_dying_in"]

\* the IOLoop thread enters the `with` block it has reached
LMainAcquire ==
    /\ mainPc \in DOMAIN MainWants
    /\ CanTake(MainWants[mainPc], 0)
    /\ cfg' = Taken(cfg, MainWants[mainPc], 0)
    /\ mainPc' = MainEntered[mainPc]
    /\ UNCHANGED <<g, kt, file, cwd, clock, sec, runs, req, resp, tmp, call>>

\* job thread w enters the `with` block it has reached
LJobAcquire(w) ==
    /\ mainPc # "reply"
    /\ JobWants(runs[w].flavor, runs[w].pc) # "none"
    /\ CanTake(JobWants(runs[w].flavor, runs[w].pc), w)
    /\ cfg' = Taken(cfg, JobWants(runs[w].flavor, runs[w].pc), w)
    /\ runs' = SetRun(w, "pc", JobEntered[runs[w].pc])
    /\ UNCHANGED <<g, kt, file, cwd, clock, sec, mainPc, req, resp, tmp, call>>

\* DataUpdateHandler.post, lines 182-185: the body is parsed and the working
\* directory stored, before the lock; a body that is no JSON enters the
\* except clause
LGPostBegin(body, t) ==
    /\ mainPc = "idle"
    /\ IF body = "malformed"
       THEN /\ mainPc' = "gx_lock"
            /\ UNCHANGED <<g, cfg>>
       ELSE /\ Len(runs) < MaxRuns
            /\ g' = GPreLock(g, t, cwd)
            /\ cfg' = [cfg EXCEPT !.arg = t]
            /\ mainPc' = "gp_lock"
    /\ UNCHANGED <<kt, file, cwd, clock, sec, runs, req, resp, tmp, call>>

\* lines 199-204: the marks written inside the lock
GMarksLocked(slot, update_type, now) ==
    [slot EXCEPT !.running = TRUE, !.start_time = now, !.type = update_type,
                 !.progress = 0, !.message = <<"started">>,
                 !.success = "none"]

\* lines 189-204, inside `with _task_lock:`
LGPostAdmit ==
    /\ mainPc = "gp_in"
    /\ IF GRunning(g)
       THEN /\ resp' = Response("gsubmit", FALSE, "AlreadyRunning", <<>>, EmptyMap)
            /\ mainPc' = "reply"
            /\ UNCHANGED <<g, clock>>
       ELSE /\ g' = GMarksLocked(g, cfg.arg, clock)
            /\ clock' = clock + 1
            /\ mainPc' = "gp_job"
            /\ resp' = resp
    /\ cfg' = Released(cfg, "task", 0)
    /\ UNCHANGED <<kt, file, cwd, sec, runs, req, tmp, call>>

\* lines 206-208, after the lock; for a job without progress keys the thread
\* is started and the response written (256-265)
LGPostJob ==
    /\ mainPc = "gp_job"
    /\ g' = [g EXCEPT !.job = GJobKey(cfg.arg)]
    /\ IF PROGRESS_GROUPS[GJobKey(cfg.arg)] = <<>>
       THEN /\ runs' = Append(runs, NewRun("global", GJobKey(cfg.arg), <<>>,
                                           JOB_EXECUTORS[GJobKey(cfg.arg)].callable, "start"))
            /\ resp' = Response("gsubmit", TRUE, "ok", <<"t", clock>>, EmptyMap)
            /\ mainPc' = "reply"
            /\ req' = req
       ELSE /\ runs' = Append(runs, NewRun("global", GJobKey(cfg.arg), <<>>,
                                           JOB_EXECUTORS[GJobKey(cfg.arg)].callable, "admitted"))
            /\ req' = [ci |-> 1, run |-> Len(runs) + 1]
            /\ mainPc' = "gp_clear"
            /\ resp' = resp
    /\ UNCHANGED <<kt, file, cwd, clock, sec, tmp, call, cfg>>

\* lines 210-211, one progress_tracker.clear inside the store lock; after the
\* last key the thread is started and the response written (256-265)
LGPostClear ==
    /\ mainPc = "gp_clear_in"
    /\ IF Clear(file, PROGRESS_GROUPS[runs[req.run].job][req.ci]).raised
       THEN /\ runs' = SetRun(req.run, "pc", "dropped")
            /\ mainPc' = "gx_lock"
            /\ req' = NoReq
            /\ UNCHANGED <<file, resp>>
       ELSE /\ file' = Clear(file, PROGRESS_GROUPS[runs[req.run].job][req.ci]).file
            /\ IF req.ci = Len(PROGRESS_GROUPS[runs[req.run].job])
               THEN /\ runs' = SetRun(req.run, "pc", "start")
                    /\ resp' = Response("gsubmit", TRUE, "ok", <<"t", clock>>, EmptyMap)
                    /\ mainPc' = "reply"
                    /\ req' = NoReq
               ELSE /\ req' = [req EXCEPT !.ci = req.ci + 1]
                    /\ mainPc' = "gp_clear"
                    /\ UNCHANGED <<runs, resp>>
    /\ cfg' = Released(cfg, "store", 0)
    /\ UNCHANGED <<g, kt, cwd, clock, sec, tmp, call>>

\* the except clause, lines 267-276, inside `with _task_lock:`
LGPostExcept ==
    /\ mainPc = "gx_in"
    /\ g' = GPostExcept(g)
    /\ resp' = Response("gsubmit", FALSE, "RequestFailed", <<>>, EmptyMap)
    /\ mainPc' = "reply"
    /\ cfg' = Released(cfg, "task", 0)
    /\ UNCHANGED <<kt, file, cwd, clock, sec, runs, req, tmp, call>>

\* DataUpdateStatusHandler.get is called (line 280)
LGStatusBegin ==
    /\ mainPc = "idle"
    /\ mainPc' = "gs_lock"
    /\ UNCHANGED <<g, kt, file, cwd, clock, sec, runs, req, resp, tmp, call, cfg>>

LGStatusReadStoresProgress ==
    /\ mainPc = "gs_read"
    /\ resp' = IF CollectProgress(g.job, file).raised
               THEN Response("gstatus", FALSE, "StatusFailed", <<>>, EmptyMap)
               ELSE Response("gstatus", TRUE, "ok", <<>>, GSnapshot(g, file))
    /\ g' = [g EXCEPT !.progress = GSnapshot(g, file).progress]
    /\ mainPc' = "reply"
    /\ cfg' = Released(Released(cfg, "store", 0), "task", 0)
    /\ UNCHANGED <<kt, file, cwd, clock, sec, runs, req, tmp, call>>

\* lines 284-299 inside both locks, then the response (301-311)
LGStatusRead ==
    /\ mainPc = "gs_read"
    /\ resp' = IF CollectProgress(g.job, file).raised
               THEN Response("gstatus", FALSE, "StatusFailed", <<>>, EmptyMap)
               ELSE Response("gstatus", TRUE, "ok", <<>>, GSnapshot(g, file))
    /\ mainPc' = "reply"
    /\ cfg' = Released(Released(cfg, "store", 0), "task", 0)
    /\ UNCHANGED <<g, kt, file, cwd, clock, sec, runs, req, tmp, call>>

\* JobUpdateHandler.post, lines 231-242: the body is parsed and the job type
\* looked up, before the lock
LKPostBegin(body, job_type) ==
    /\ mainPc = "idle"
    /\ IF body = "malformed"
       THEN /\ mainPc' = "kx_lock"
            /\ UNCHANGED <<resp, cfg>>
       ELSE IF ~KKnown(job_type)
       THEN /\ resp' = Response("ksubmit", FALSE, "UnknownJob", <<>>, EmptyMap)
            /\ mainPc' = "reply"
            /\ cfg' = cfg
       ELSE /\ Len(runs) < MaxRuns
            /\ cfg' = [cfg EXCEPT !.arg = job_type]
            /\ mainPc' = "kp_lock"
            /\ resp' = resp
    /\ UNCHANGED <<g, kt, file, cwd, clock, sec, runs, req, tmp, call>>

\* lines 246-273 inside `with _task_lock:`, then the thread is started and
\* the response written (313-323)
LKPostAdmit ==
    /\ mainPc = "kp_in"
    /\ IF KAnyRunning(kt)
       THEN /\ resp' = Response("ksubmit", FALSE, "AlreadyRunning", <<>>, EmptyMap)
            /\ UNCHANGED <<kt, clock, runs>>
       ELSE IF cfg.arg \notin DOMAIN KJOB_EXECUTORS
       THEN /\ resp' = Response("ksubmit", FALSE, "NoExecutor", <<>>, EmptyMap)
            /\ UNCHANGED <<kt, clock, runs>>
       ELSE /\ clock' = clock + 1
            /\ kt' = [k \in DOMAIN kt \cup {KTaskKey(cfg.arg, sec)} |->
                        IF k = KTaskKey(cfg.arg, sec)
                        THEN KNewTask(cfg.arg, clock) ELSE kt[k]]
            /\ runs' = Append(runs, NewRun("keyed", cfg.arg, KTaskKey(cfg.arg, sec),
                                           KJOB_EXECUTORS[cfg.arg].callable, "start"))
            /\ resp' = Response("ksubmit", TRUE, "ok", KTaskKey(cfg.arg, sec), EmptyMap)
    /\ sec' = sec
    /\ mainPc' = "reply"
    /\ cfg' = Released(cfg, "ktask", 0)
    /\ UNCHANGED <<g, file, cwd, req, tmp, call>>

\* the except clause, lines 325-336: inside `with _task_lock:` task_key is
\* read, which is unbound, and the handler ends with UnboundLocalError
LKPostExcept ==
    /\ mainPc = "kx_in"
    /\ resp' = Response("ksubmit", FALSE, "ServerError", <<>>, EmptyMap)
    /\ mainPc' = "reply"
    /\ cfg' = Released(cfg, "ktask", 0)
    /\ UNCHANGED <<g, kt, file, cwd, clock, sec, runs, req, tmp, call>>

\* JobUpdateStatusHandler.get is called (line 339)
LKStatusBegin ==
    /\ mainPc = "idle"
    /\ mainPc' = "ks_lock"
    /\ UNCHANGED <<g, kt, file, cwd, clock, sec, runs, req, resp, tmp, call, cfg>>

\* lines 358-372: the tasks that are running, when task_id names no task
KActiveTasks(tasks) ==
    [has_active_tasks |-> \E k \in DOMAIN tasks : tasks[k].running,
     active_tasks |-> [k \in {x \in DOMAIN tasks : tasks[x].running} |->
                         [running |-> tasks[k].running,
                          progress |-> tasks[k].progress,
                          message |-> tasks[k].message,
                          job_type |-> tasks[k].job_type]]]

\* lines 343-372 inside `with _task_lock:`, then the response (374-377);
\* task_id <<>> stands for an argument that names no task
LKStatusRead(task_id) ==
    /\ mainPc = "ks_in"
    /\ resp' = IF task_id \in DOMAIN kt
               THEN Response("kstatus", TRUE, "ok", task_id, KStatus(kt, task_id))
               ELSE Response("kstatus", TRUE, "ok", <<>>, KActiveTasks(kt))
    /\ mainPc' = "reply"
    /\ cfg' = Released(cfg, "ktask", 0)
    /\ UNCHANGED <<g, kt, file, cwd, clock, sec, runs, req, tmp, call>>

\* run_update, lines 216-217, inside `with _task_lock:`
LGStartMsg(w) ==
    /\ At(w, "global", "msg")
    /\ g' = [g EXCEPT !.message = <<"msg", JOB_EXECUTORS[runs[w].job].message>>]
    /\ runs' = SetRun(w, "pc", "enter")
    /\ cfg' = Released(cfg, "task", w)
    /\ UNCHANGED <<kt, file, cwd, clock, sec, mainPc, req, resp, tmp, call>>

\* run_job, lines 283-284, inside `with _task_lock:`
LKStartMsg(w) ==
    /\ At(w, "keyed", "msg")
    /\ kt' = [kt EXCEPT ![runs[w].key].message =
                          <<"msg", KJOB_EXECUTORS[runs[w].job].message>>]
    /\ runs' = SetRun(w, "pc", "enter")
    /\ cfg' = Released(cfg, "ktask", w)
    /\ UNCHANGED <<g, file, cwd, clock, sec, mainPc, req, resp, tmp, call>>

\* the job callable calls progress_tracker.update
LJobUpdateBegin(w) ==
    /\ At(w, runs[w].flavor, "call")
    /\ runs[w].nupd < MaxUpdates
    /\ WritesOf(runs[w].callable) # {}
    /\ runs' = [runs EXCEPT ![w].pc = "upd", ![w].nupd = runs[w].nupd + 1]
    /\ UNCHANGED <<g, kt, file, cwd, clock, sec, mainPc, req, resp, tmp, call, cfg>>

\* progress_tracker.update inside `with _LOCK:`; an update that raises leaves
\* the file as it is
LJobUpdate(w, k, u) ==
    /\ At(w, runs[w].flavor, "upd_in")
    /\ k \in WritesOf(runs[w].callable)
    /\ file' = Update(file, k, u[1], u[2], "fetching", "none", w).file
    /\ runs' = SetRun(w, "pc", "call")
    /\ cfg' = Released(cfg, "store", w)
    /\ UNCHANGED <<g, kt, cwd, clock, sec, mainPc, req, resp, tmp, call>>

\* run_update, lines 229-237, inside both locks; an exception of
\* _collect_progress leaves both blocks and enters the except clause
LGFinalizeOk(w) ==
    /\ At(w, "global", "fin_ok_read")
    /\ IF CollectProgress(runs[w].job, file).raised
       THEN /\ runs' = [runs EXCEPT ![w].pc = "fin_err", ![w].err = "AttributeError"]
            /\ UNCHANGED <<g, clock>>
       ELSE /\ g' = GFinalState(g, CollectProgress(runs[w].job, file).value,
                                <<JOB_EXECUTORS[runs[w].job].name, "done">>, "true", clock)
            /\ clock' = clock + 1
            /\ runs' = Finalized(w)
    /\ cfg' = Released(Released(cfg, "store", w), "task", w)
    /\ UNCHANGED <<kt, file, cwd, sec, mainPc, req, resp, tmp, call>>

\* lines 239-249, inside both locks; an exception here leaves the except
\* clause, the finally clause runs and the thread ends with the exception
LGFinalizeErr(w) ==
    /\ At(w, "global", "fin_err_read")
    /\ IF CollectProgress(runs[w].job, file).raised
       THEN /\ runs' = [runs EXCEPT ![w].pc = "cleanup_dying", ![w].ci = 1]
            /\ UNCHANGED <<g, clock>>
       ELSE /\ g' = GFinalState(g, CollectProgress(runs[w].job, file).value,
                                <<JOB_EXECUTORS[runs[w].job].name, "failed", runs[w].err>>,
                                "false", clock)
            /\ clock' = clock + 1
            /\ runs' = Finalized(w)
    /\ cfg' = Released(Released(cfg, "store", w), "task", w)
    /\ UNCHANGED <<kt, file, cwd, sec, mainPc, req, resp, tmp, call>>

\* lines 251-253, one progress_tracker.clear inside the store lock
LGCleanup(w) ==
    /\ At(w, "global", "cleanup_in") \/ At(w, "global", "cleanup_dying_in")
    /\ IF Clear(file, PROGRESS_GROUPS[runs[w].job][runs[w].ci]).raised
       THEN /\ runs' = EndRun(w, "died")
            /\ file' = file
       ELSE /\ file' = Clear(file, PROGRESS_GROUPS[runs[w].job][runs[w].ci]).file
            /\ runs' = IF runs[w].ci = Len(PROGRESS_GROUPS[runs[w].job])
                       THEN EndRun(w, IF runs[w].pc = "cleanup_in" THEN "done" ELSE "died")
                       ELSE [runs EXCEPT ![w].ci = runs[w].ci + 1,
                                         ![w].pc = IF runs[w].pc = "cleanup_in"
                                                   THEN "cleanup" ELSE "cleanup_dying"]
    /\ cfg' = Released(cfg, "store", w)
    /\ UNCHANGED <<g, kt, cwd, clock, sec, mainPc, req, resp, tmp, call>>

\* run_job, lines 295-300, inside `with _task_lock:`
LKFinalizeOk(w) ==
    /\ At(w, "keyed", "fin_ok_in")
    /\ kt' = [kt EXCEPT ![runs[w].key] =
                KFinalState(@, <<JOB_MAPPING[runs[w].job], "done">>, "true", clock)]
    /\ clock' = clock + 1
    /\ runs' = [EndRun(w, "done") EXCEPT ![w].fin = TRUE]
    /\ cfg' = Released(cfg, "ktask", w)
    /\ UNCHANGED <<g, file, cwd, sec, mainPc, req, resp, tmp, call>>

\* lines 302-310, inside `with _task_lock:`
LKFinalizeErr(w) ==
    /\ At(w, "keyed", "fin_err_in")
    /\ kt' = [kt EXCEPT ![runs[w].key] =
                KFinalState(@, <<KJOB_EXECUTORS[runs[w].job].name, "failed", runs[w].err>>,
                            "false", clock)]
    /\ clock' = clock + 1
    /\ runs' = [EndRun(w, "done") EXCEPT ![w].fin = TRUE]
    /\ cfg' = Released(cfg, "ktask", w)
    /\ UNCHANGED <<g, file, cwd, sec, mainPc, req, resp, tmp, call>>

\* The requests carry update_type "full" or "indicators", job_type
\* "basic_data" or one that is unknown; a callable reports 1 of 2; keyed
\* submissions fall into the same second.
LockNext ==
    \/ LMainAcquire
    \/ \E w \in Workers : LJobAcquire(w)
    \/ \E body \in Bodies, t \in {"full", "indicators"} : LGPostBegin(body, t)
    \/ LGPostAdmit
    \/ LGPostJob
    \/ LGPostClear
    \/ LGPostExcept
    \/ LGStatusBegin
    \/ LGStatusRead
    \/ \E body \in Bodies, jt \in {"basic_data", "bogus"} : LKPostBegin(body, jt)
    \/ LKPostAdmit
    \/ LKPostExcept
    \/ LKStatusBegin
    \/ \E task_id \in DOMAIN kt \cup {<<>>} : LKStatusRead(task_id)
    \/ Reply
    \/ \E w \in Workers : LGStartMsg(w)
    \/ \E w \in Workers : LKStartMsg(w)
    \/ \E w \in Workers : GEnter(w)
    \/ \E w \in Workers : KEnter(w)
    \/ \E w \in Workers : LJobUpdateBegin(w)
    \/ \E w \in Workers, k \in ProgressKeys : LJobUpdate(w, k, <<1, 2>>)
    \/ \E w \in Workers : JobReturn(w)
    \/ \E w \in Workers : JobRaise(w)
    \/ \E w \in Workers : LGFinalizeOk(w)
    \/ \E w \in Workers : LGFinalizeErr(w)
    \/ \E w \in Workers : LGCleanup(w)
    \/ \E w \in Workers : LKFinalizeOk(w)
    \/ \E w \in Workers : LKFinalizeErr(w)

\* the orchestrators at rest, all locks free, the progress file absent or a
\* document that is no dict
LockInit ==
    /\ WebInit
    /\ file \in {[kind |-> k, data |-> EmptyMap] : k \in {"missing", "list"}}
    /\ tmp = NoTmp
    /\ call = NoCall
    /\ cfg = [pc |-> "locks", task |-> FreeLock, ktask |-> FreeLock,
              store |-> FreeRLock, arg |-> "none"]

LockSpec == LockInit /\ [][LockNext]_vars

-----------------------------------------------------------------------------
\* Properties

\* a job that was admitted and whose TaskState is not finalized yet
InFlight(w) == runs[w].pc \in {"admitted", "start", "enter", "call", "fin_ok", "fin_err"}
Launched(w) == runs[w].pc \in {"start", "enter", "call", "fin_ok", "fin_err"}
Executing(w) == runs[w].pc = "call"
GlobalRuns == {w \in Workers : runs[w].flavor = "global"}
KeyedRuns == {w \in Workers : runs[w].flavor = "keyed"}

\* C1: global-slot single-flight.  While an accepted global-slot job has not
\* been finalized by its thread no further submit is accepted, so at most
\* one global-slot job is in flight and at most one of their callables is
\* executing, whatever requests arrive in between.
C1_GlobalSingleFlight ==
    /\ Cardinality({w \in GlobalRuns : InFlight(w)}) <= 1
    /\ Cardinality({w \in GlobalRuns : Executing(w)}) <= 1

\* C2: keyed single-flight.  At most one entry of the task map has
\* running = true, at most one keyed job is in flight or executing, and the
\* entry of a keyed job in flight is the running one.
C2_KeyedSingleFlight ==
    /\ Cardinality({k \in DOMAIN kt : kt[k].running}) <= 1
    /\ Cardinality({w \in KeyedRuns : InFlight(w)}) <= 1
    /\ \A w \in KeyedRuns : InFlight(w) => kt[runs[w].key].running

\* C2 witness: a keyed submit was rejected while a keyed callable executes
C2_Witness ==
    /\ mainPc = "reply" /\ resp.op = "ksubmit" /\ resp.reason = "AlreadyRunning"
    /\ \E w \in KeyedRuns : Executing(w)
    /\ \E k \in DOMAIN kt : ~kt[k].running

\* the TaskState fields of the global slot
GTaskState(slot) ==
    <<slot.running, slot.progress, slot.message, slot.success,
      slot.start_time, slot.end_time, slot.type, slot.job>>

\* C3: a submit rejected as AlreadyRunning answers success = false with no
\* task id and leaves the TaskState of the job in flight (running, progress,
\* message, success, start time, end time, job identity) and the job itself
\* as they were, in both flavors.
C3_RejectedSubmitChangesNothing ==
    [][(mainPc = "idle" /\ mainPc' = "reply"
        /\ resp'.op \in {"gsubmit", "ksubmit"}
        /\ \/ resp'.op = "gsubmit" /\ g.running
           \/ resp'.op = "ksubmit" /\ \E k \in DOMAIN kt : kt[k].running
        /\ resp'.reason \notin {"RequestFailed", "ServerError", "UnknownJob"})
       => /\ resp'.reason = "AlreadyRunning"
          /\ ~resp'.accepted /\ resp'.task_id = <<>>
          /\ GTaskState(g') = GTaskState(g)
          /\ kt' = kt
          /\ runs' = runs /\ file' = file]_vars

\* C3 witness: a global-slot submit was rejected while the job in flight is
\* executing
C3_Witness ==
    /\ mainPc = "reply" /\ resp.op = "gsubmit" /\ resp.reason = "AlreadyRunning"
    /\ g.running
    /\ \E w \in GlobalRuns : Executing(w)

\* C4: while the thread of a job is in flight, the running flag of its
\* TaskState goes from true to false only in the finalization of that thread,
\* never by another request.
C4_OnlyOwnerStopsRunning ==
    [][/\ (g.running /\ ~g'.running /\ \E w \in GlobalRuns : Launched(w))
          => \E w \in GlobalRuns : /\ runs[w].pc \in {"fin_ok", "fin_err"}
                                   /\ ~runs[w].fin /\ runs'[w].fin
       /\ \A k \in DOMAIN kt :
             (kt[k].running /\ ~kt'[k].running)
             => \E w \in KeyedRuns : /\ runs[w].key = k
                                     /\ runs[w].pc \in {"fin_ok", "fin_err"}
                                     /\ ~runs[w].fin /\ runs'[w].fin]_vars

\* the records of the store a run wrote, and those under a job's keys
WrittenBy(w, f) == {k \in DOMAIN f.data : f.data[k].by = w}
JobRecords(job, f) ==
    IF job \in DOMAIN PROGRESS_GROUPS
    THEN {k \in DOMAIN f.data : \E i \in DOMAIN PROGRESS_GROUPS[job] : PROGRESS_GROUPS[job][i] = k}
    ELSE {}

RECURSIVE SumOver(_, _)
SumOver(S, f) ==
    IF S = {} THEN 0
    ELSE LET k == CHOOSE x \in S : TRUE IN f.data[k].progress + SumOver(S \ {k}, f)

\* the rounded mean of the known percentages of a set of records, NoneV
\* when none is known
MeanOf(S, f) ==
    LET known == {k \in S : f.data[k].progress # NoneV} IN
    IF known = {} THEN NoneV ELSE RoundDiv(SumOver(known, f), Cardinality(known))

OrHundred(p) == IF p = NoneV THEN 10000 ELSE p

C6_GlobalFaultCaptured ==
    [][\A w \in GlobalRuns :
         /\ (runs[w].pc = "fin_err" /\ runs[w].err = ErrText /\ runs'[w].pc # "fin_err")
            => /\ ~g'.running /\ g'.success = "false" /\ g'.end_time # NoneV
               /\ g'.message = <<JOB_EXECUTORS[runs[w].job].name, "failed", ErrText>>
         /\ (runs[w].err = ErrText /\ runs[w].pc \notin {"done", "died"}
             /\ runs'[w].pc \in {"done", "died"})
            => WrittenBy(w, file') = {}]_vars

\* C7: when the callable of a global-slot job returns, the finalization sets
\* running = false, success = true, an end time, and progress to the
\* aggregate of the job's records as they are then (100 when unknown), and
\* the records are cleared only afterwards.
C7_GlobalNormalFinalization ==
    [][\A w \in GlobalRuns :
         (runs[w].pc = "fin_ok" /\ runs'[w].pc # "fin_ok")
         => /\ ~g'.running /\ g'.success = "true" /\ g'.end_time = clock
            /\ g'.progress = OrHundred(MeanOf(JobRecords(runs[w].job, file), file))
            /\ file' = file]_vars

C9_StatusRecomputesProgress ==
    (mainPc = "reply" /\ resp.op = "gstatus" /\ resp.accepted /\ resp.data.running)
    => LET S == JobRecords(g.job, file) IN
       /\ MeanOf(S, file) # NoneV => resp.data.progress = MeanOf(S, file)
       /\ DOMAIN resp.data.progress_details = S
       /\ \A k \in S : resp.data.progress_details[k] = file.data[k]

\* C9 witness: the answer carries 50 percent while the TaskState stores 0
C9_Witness ==
    /\ mainPc = "reply" /\ resp.op = "gstatus" /\ resp.accepted
    /\ resp.data.running /\ resp.data.progress = 5000 /\ g.progress = 0

\* C10: a job thread whose callable has returned or raised ends only after it
\* has finalized the TaskState, whatever the store file holds.
C10_EndedThreadHasFinalized ==
    \A w \in Workers : runs[w].pc \in {"done", "died"} => runs[w].fin

-----------------------------------------------------------------------------
\* Properties of the Progress Store (StoreSpec, AnyFileSpec)

\* the step in which a call of `op` returns normally
Returns(op) ==
    call'.op = op /\ call'.pc = "done" /\ call'.ret = "ok" /\ call' # call

\* C11: round trip.  After update(k, ...) returns, get(k) gives the record
\* with the arguments of that update; after clear(k) returns, get(k) gives
\* absence; every other step (a call on another key, a get, a failed or
\* interrupted call) leaves what get(k) gives as it was; get never raises.
C11_RoundTrip ==
    [][\A j \in StoreKeys :
         LET before == Get(file, j)
             after  == Get(file', j)
         IN /\ ~after.raised
            /\ IF Returns("update") /\ call'.key = j
               THEN /\ after.present
                    /\ after.value.current = call'.args.current
                    /\ after.value.total = call'.args.total
                    /\ after.value.message = call'.args.message
               ELSE IF Returns("clear") /\ call'.key = j
               THEN ~after.present
               ELSE /\ after.present = before.present
                    /\ after.present => after.value = before.value]_vars

\* C11 witness: get(k) has returned the record of update(k, 50, 200) after a
\* later write was interrupted; the other key has no record
C11_Witness ==
    /\ call.op = "get" /\ call.pc = "done" /\ call.ret = "ok"
    /\ call.value # <<>> /\ call.value[1].current = 50 /\ call.value[1].total = 200
    /\ tmp = Truncated
    /\ DOMAIN file.data = {call.key}

\* C12: after update(k, current, total, message, success?) returns, the
\* stored success of k is the one passed, and unset when none was passed:
\* nothing of an earlier record of k remains.
C12_UpdateReplacesWholesale ==
    (call.op = "update" /\ call.pc = "done" /\ call.ret = "ok")
    => file.data[call.key].success =
         (IF call.args.success = "none" THEN "unset" ELSE call.args.success)

\* C13: after update returns, the stored percentage is the hundredth
\* nearest to current / total * 100 when total is known and above 0 (25.00
\* for 50 of 200), and absent when total is unknown or 0.
C13_StoredPercentage ==
    (call.op = "update" /\ call.pc = "done" /\ call.ret = "ok")
    => LET p == file.data[call.key].progress
           c == call.args.current
           t == call.args.total
           d == p * t - c * 10000
       IN IF t # NoneV /\ t > 0
          THEN /\ p # NoneV
               /\ 2 * (IF d < 0 THEN -d ELSE d) <= t
               /\ (c = 50 /\ t = 200) => p = 2500
          ELSE p = NoneV

\* C13 witness: 2 of 3 is stored as 66.67 while the other key holds 25.00
C13_Witness ==
    /\ call.op = "update" /\ call.pc = "done" /\ call.ret = "ok"
    /\ call.args.current = 2 /\ call.args.total = 3
    /\ file.data[call.key].progress = 6667
    /\ \E k \in DOMAIN file.data : file.data[k].progress = 2500

\* C14: every stored percentage is absent or within [0, 100].
C14_PercentagesInRange ==
    \A k \in DOMAIN file.data :
        \/ file.data[k].progress = NoneV
        \/ file.data[k].progress >= 0 /\ file.data[k].progress <= 10000

\* C15: get_many(keys) returns normally a mapping whose keys are exactly the
\* requested keys that have a record in the store, each with its record.
C15_GetManyOmitsAbsent ==
    (call.op = "get_many" /\ call.pc = "done")
    => /\ call.ret = "ok"
       /\ DOMAIN call.value = {k \in call.key : Get(file, k).present}
       /\ \A k \in DOMAIN call.value : call.value[k] = Get(file, k).value

\* C15 witness: both keys were asked for and only one has a record
C15_Witness ==
    /\ call.op = "get_many" /\ call.pc = "done" /\ call.key = StoreKeys
    /\ Cardinality(DOMAIN call.value) = 1
    /\ Cardinality(DOMAIN file.data) = 1

\* the complete store after the call in progress, given the store before
StoreAfter(before, after) ==
    LET old == IF before.kind = "map" THEN before.data ELSE EmptyMap
        k == call.key
    IN /\ after.kind = "map"
       /\ IF call.op = "update"
          THEN /\ DOMAIN after.data = DOMAIN old \cup {k}
               /\ after.data[k].current = call.args.current
               /\ after.data[k].total = call.args.total
               /\ after.data[k].message = call.args.message
          ELSE /\ call.op = "clear"
               /\ DOMAIN after.data = DOMAIN old \ {k}
       /\ \A j \in DOMAIN after.data \ {k} : after.data[j] = old[j]

\* C16: atomic persistence.  In every step, the death of the process and a
\* failing write included, the document at the store path stays what it was
\* or becomes the complete store after the call in progress; the restarted
\* process finds the document of the last completed write.
C16_AtomicPersistence ==
    [][/\ file' = file \/ (call.op \in {"update", "clear"} /\ StoreAfter(file, file'))
       /\ call'.op = "restart" => file' = file]_vars

\* C16 witness: the process died while the temporary file was half written
\* and the store still is the complete document of the update before
C16_Witness ==
    /\ call.op = "restart"
    /\ tmp = Truncated
    /\ file.kind = "map" /\ DOMAIN file.data # {}

\* C17: an update whose write fails returns normally.
C17_WriteFailureSwallowed ==
    (call.op = "update" /\ call.pc = "done") => call.ret # "OSError"

\* C18: on a store file that is missing, unparseable or no mapping, get
\* returns absence, get_many an empty mapping, clear does nothing and update
\* writes a store holding only its key, none of them raising.
C18_MalformedFileReadsAsEmpty ==
    [][(/\ CallFree /\ call' # call
        /\ file.kind \in {"missing", "garbage", "list", "scalar"}
        /\ call'.op \in {"get", "get_many", "clear", "update"})
       => /\ call'.ret \notin {"AttributeError", "TypeError"}
          /\ call'.op = "get" => call'.value = <<>>
          /\ call'.op = "get_many" => call'.value = EmptyMap
          /\ call'.op = "clear" => call'.pc = "done" /\ file' = file
          /\ call'.op = "update"
             => call'.pc = "write" /\ DOMAIN call'.doc.data = {call'.key}]_vars

-----------------------------------------------------------------------------
\* Properties of the aggregator (AggSpec)

\* what one record contributes by the stated rule: its stored percentage,
\* else the hundredth nearest to current / total * 100; {} when neither
RuleValues(info) ==
    IF info.progress # NoneV THEN {info.progress}
    ELSE IF info.total # NoneV /\ info.total # 0
    THEN {u \in 0..10000 :
            LET d == u * info.total - info.current * 10000
            IN 2 * (IF d < 0 THEN -d ELSE d) <= info.total}
    ELSE {}

RECURSIVE RuleSum(_, _)
RuleSum(details, ks) ==
    IF ks = {} THEN 0
    ELSE LET k == CHOOSE x \in ks : TRUE
         IN (CHOOSE u \in RuleValues(details[k]) : TRUE) + RuleSum(details, ks \ {k})

\* C19: the aggregate of a details mapping is the hundredth nearest to the
\* unweighted mean of the values its records contribute, records without a
\* value being skipped and a stored 0 counting; it is unknown exactly when
\* no record contributes a value.
C19_AggregateIsRoundedMean ==
    (call.op = "aggregate" /\ call.pc = "done")
    => LET details == call.args
           used == {k \in DOMAIN details : RuleValues(details[k]) # {}}
           n == Cardinality(used)
           d == call.value * n - RuleSum(details, used)
       IN IF used = {} THEN call.value = NoneV
          ELSE /\ call.value # NoneV
               /\ 2 * (IF d < 0 THEN -d ELSE d) <= n

\* C19 witness: a stored 0, a percentage derived from 50 of 200 and a record
\* without a value aggregate to 12.50
C19_Witness ==
    /\ call.op = "aggregate" /\ call.pc = "done"
    /\ call.value = 1250
    /\ Cardinality(DOMAIN call.args) = 3
    /\ \E k \in DOMAIN call.args : call.args[k].progress = 0
    /\ \E k \in DOMAIN call.args : RuleValues(call.args[k]) = {}
    /\ \E k \in DOMAIN call.args :
          call.args[k].progress = NoneV /\ RuleValues(call.args[k]) = {2500}

-----------------------------------------------------------------------------
\* Properties of the schedule merger (MergeSpec)

\* five fields, each made of the characters 0-9 * / , -
WellFormedCron(cron) ==
    /\ Len(cron.fields) = 5
    /\ \A k \in DOMAIN cron.fields :
           /\ cron.fields[k] # <<>>
           /\ \A c \in DOMAIN cron.fields[k] :
                  cron.fields[k][c] \in AsciiDigits \cup {"*", "/", ",", "-"}

AllValid(list) == \A i \in DOMAIN list : WellFormedCron(list[i].cron)

\* C20: merge idempotence.  For lists A and B of entries with valid cron
\* expressions, merge(merge(A, B), B) succeeds and equals merge(A, B).
C20_MergeIdempotent ==
    (cfg.pc = "again" /\ AllValid(cfg.existing) /\ AllValid(cfg.incoming))
    => ~cfg.again.raised /\ cfg.again.list = cfg.merged.list

\* C20 witness: A and B together hold more than 20 different cron texts, B
\* repeats one of A with white space around it, and the merge was repeated
C20_Witness ==
    /\ cfg.pc = "again"
    /\ AllValid(cfg.existing) /\ AllValid(cfg.incoming)
    /\ Len(cfg.existing) + Len(cfg.incoming) > 40
    /\ Len(cfg.merged.list) = 20
    /\ \E i \in DOMAIN cfg.incoming : cfg.incoming[i].cron.pad /\ cfg.incoming[i].cron.fields = CronText(1)

\* existing followed by incoming, and the places in it where a non-empty
\* trimmed cron text appears for the first time
Offered == cfg.existing \o cfg.incoming
FirstOccurrences ==
    {i \in DOMAIN Offered :
        /\ Offered[i].cron.fields # <<>>
        /\ \A j \in 1..(i - 1) : Offered[j].cron.fields # Offered[i].cron.fields}
NthOf(S, k) == CHOOSE i \in S : Cardinality({j \in S : j < i}) = k - 1

\* C21: a merge result never has more than 20 entries, and when existing
\* followed by incoming holds more than 20 distinct non-empty cron texts the
\* result is exactly the first 20 of them in order of first appearance.
C21_MergeCap ==
    (cfg.pc = "merged" /\ ~cfg.merged.raised) =>
        /\ Len(cfg.merged.list) <= 20
        /\ Cardinality(FirstOccurrences) > 20 =>
              /\ Len(cfg.merged.list) = 20
              /\ \A k \in 1..20 :
                     LET from == Offered[NthOf(FirstOccurrences, k)] IN
                     /\ cfg.merged.list[k].cron.fields = from.cron.fields
                     /\ cfg.merged.list[k].description = from.description

\* more than 20 distinct texts were offered and merged
C21_Witness ==
    /\ cfg.pc = "merged"
    /\ ~cfg.merged.raised
    /\ Cardinality(FirstOccurrences) > 20
    /\ Len(cfg.merged.list) = 20
    /\ Len(cfg.existing) > 0
    /\ Len(cfg.incoming) > 0

\* C22: the merge result lists the first occurrence of every non-empty
\* trimmed cron text of existing followed by incoming, in that order, with
\* that occurrence's description and enabled flag; no cron text is empty, none
\* appears twice, and an entry without an enabled field comes out enabled.
C22_MergeDedupAndOrder ==
    (cfg.pc = "merged" /\ ~cfg.merged.raised) =>
        LET list == cfg.merged.list IN
        /\ Len(list) <= Cardinality(FirstOccurrences)
        /\ \A k \in DOMAIN list :
               LET from == Offered[NthOf(FirstOccurrences, k)] IN
               /\ list[k].cron.fields # <<>>
               /\ ~list[k].cron.pad
               /\ list[k].cron.fields = from.cron.fields
               /\ list[k].description = from.description
               /\ list[k].enabled = (IF from.enabled = "false" THEN "false" ELSE "true")
        /\ \A k \in DOMAIN list : \A m \in DOMAIN list :
               list[k].cron.fields = list[m].cron.fields => k = m
        /\ Len(list) < Cardinality(FirstOccurrences) => Len(list) = 20

\* a text of existing came again in incoming with another description and
\* flag, next to an empty text, and an entry without the enabled field was kept
C22_Witness ==
    /\ cfg.pc = "merged"
    /\ ~cfg.merged.raised
    /\ \E i \in DOMAIN cfg.existing : \E j \in DOMAIN cfg.incoming :
          /\ cfg.existing[i].cron.fields = cfg.incoming[j].cron.fields
          /\ cfg.existing[i].description # cfg.incoming[j].description
          /\ cfg.existing[i].enabled = "absent"
          /\ cfg.incoming[j].enabled = "false"
    /\ \E j \in DOMAIN cfg.incoming : cfg.incoming[j].cron.fields = <<>>
    /\ \E k \in DOMAIN cfg.merged.list : cfg.merged.list[k].enabled = "true"

\* C23: a merge fails exactly when some entry of existing or incoming has a
\* non-empty trimmed cron text that is not five fields of the characters
\* 0-9 * / , -.
C23_CronValidation ==
    cfg.pc = "merged" =>
        (cfg.merged.raised <=>
            \E i \in DOMAIN Offered :
                /\ Offered[i].cron.fields # <<>>
                /\ ~WellFormedCron(Offered[i].cron))

\* the places of a list whose entry is enabled
EnabledPlaces(list) == {i \in DOMAIN list : list[i].enabled = "true"}

\* C25: the rendered text is the three header lines followed by one scheduler
\* line per enabled entry, in list order and beginning with that entry's cron
\* text; a disabled entry gives no line; with no enabled entry the header is
\* followed by exactly one comment line.
C25_Rendering ==
    cfg.pc = "rendered" =>
        LET list == cfg.merged.list
            on == EnabledPlaces(list)
            text == cfg.rendered
        IN /\ Len(text) >= 3
           /\ SubSeq(text, 1, 3) = CronHeader
           /\ on # {} =>
                 /\ Len(text) = 3 + Cardinality(on)
                 /\ \A k \in 1..Cardinality(on) :
                        /\ text[3 + k].cron = list[NthOf(on, k)].cron.fields
                        /\ text[3 + k].cron # <<>>
           /\ on = {} =>
                 /\ Len(text) = 4
                 /\ text[4].cron = <<>>
                 /\ text[4].text # ""

\* a list with an enabled entry after a disabled one was rendered
C25_Witness ==
    /\ cfg.pc = "rendered"
    /\ \E i \in DOMAIN cfg.merged.list : \E j \in DOMAIN cfg.merged.list :
          /\ i < j
          /\ cfg.merged.list[i].enabled = "false"
          /\ cfg.merged.list[j].enabled = "true"
    /\ Len(cfg.rendered) = 3 + Cardinality(EnabledPlaces(cfg.merged.list))

\* a list with nothing but a disabled entry was rendered
C25_WitnessNoneEnabled ==
    /\ cfg.pc = "rendered"
    /\ Len(cfg.merged.list) = 1
    /\ EnabledPlaces(cfg.merged.list) = {}
    /\ Len(cfg.rendered) = 4

\* the save handlers, and what a configuration file stands for: a file that
\* is missing or holds no JSON object reads as the built-in document
SaveHandlers == {"ConfigHandler.post", "SaveConfigHandler.post"}
Persisted(conf) ==
    IF conf.kind \in {"missing", "garbage", "nonobject"}
    THEN [kind |-> "object", doc |-> DEFAULT_CONFIG] ELSE conf
PersistedEntries(conf) ==
    LET doc == Persisted(conf).doc IN
    IF "job_schedules" \in DOMAIN doc /\ doc["job_schedules"].t = "dict"
    THEN DictGet(doc["job_schedules"].v, "execute_daily_job", <<>>)
    ELSE <<>>
ScheduleSave(body) ==
    /\ body.ok
    /\ body.config_type = "job_schedules"
    /\ body.config_data.t = "dict"
RequestEntries(body) == DictGet(body.config_data.v, "execute_daily_job", <<>>)
HasInvalidCron(list) ==
    \E i \in DOMAIN list :
        list[i].cron.fields # <<>> /\ ~WellFormedCron(list[i].cron)

\* C24: a schedule save whose entries hold an invalid cron expression gets a
\* negative result and leaves the persisted document and the schedule file as
\* they were.
C24_InvalidSaveAtomic ==
    [][(/\ cfg'.result.handler \in SaveHandlers
        /\ ScheduleSave(cfg'.result.body)
        /\ HasInvalidCron(RequestEntries(cfg'.result.body)))
       => (/\ ~cfg'.result.success
           /\ Persisted(cfg'.conf) = Persisted(cfg.conf)
           /\ cfg'.cron = cfg.cron)]_vars

\* the same, for the cron expressions that _validate_cron_expression rejects
C24_RejectedSaveAtomic ==
    [][(/\ cfg'.result.handler \in SaveHandlers
        /\ ScheduleSave(cfg'.result.body)
        /\ \E i \in DOMAIN RequestEntries(cfg'.result.body) :
              Normalize(RequestEntries(cfg'.result.body)[i]).raised)
       => (/\ ~cfg'.result.success
           /\ Persisted(cfg'.conf) = Persisted(cfg.conf)
           /\ cfg'.cron = cfg.cron)]_vars

\* C26: a successful save of a partial section keeps every persisted setting
\* of that section that the partial document does not mention, and a schedule
\* save merges the request into the persisted entries.
C26_PartialWriteKeepsPersisted ==
    [][(/\ cfg'.result.handler \in SaveHandlers
        /\ cfg'.result.success
        /\ cfg'.result.body.config_data.t = "dict"
        /\ cfg.conf.kind = "object"
        /\ cfg'.result.body.config_type \in DOMAIN cfg.conf.doc
        /\ cfg.conf.doc[cfg'.result.body.config_type].t = "dict")
       => LET section == cfg'.result.body.config_type
              before == cfg.conf.doc[section].v
              after == cfg'.conf.doc[section]
              partial == cfg'.result.body.config_data.v
          IN /\ after.t = "dict"
             /\ section # "job_schedules" =>
                   \A k \in DOMAIN before \ DOMAIN partial :
                       k \in DOMAIN after.v /\ after.v[k] = before[k]
             /\ section = "job_schedules" =>
                   LET m == MergeJobSchedules(PersistedEntries(cfg.conf),
                                              RequestEntries(cfg'.result.body))
                   IN ~m.raised /\ PersistedEntries(cfg'.conf) = m.list]_vars

\* C27: a schedule save that reports success leaves the schedule file equal
\* to the rendering of the persisted entries, and one that reports failure
\* has not changed the persisted entries.
C27_ScheduleFileConsistency ==
    [][(/\ cfg'.result.handler \in SaveHandlers
        /\ cfg'.result.body.ok
        /\ cfg'.result.body.config_type = "job_schedules")
       => IF cfg'.result.success
          THEN /\ cfg'.cron.kind = "text"
               /\ cfg'.cron.lines = RenderCronFile(PersistedEntries(cfg'.conf))
          ELSE PersistedEntries(cfg'.conf) = PersistedEntries(cfg.conf)]_vars

\* the second half alone: no save reports failure after it changed the
\* persisted schedule
C27_NoFailureAfterChange ==
    [][(/\ cfg'.result.handler \in SaveHandlers
        /\ ~cfg'.result.success)
       => PersistedEntries(cfg'.conf) = PersistedEntries(cfg.conf)]_vars

\* C28: whatever the configuration file holds, reading the whole document
\* succeeds and gives every built-in section with every built-in key, and the
\* unknown sections of the file as they are.
C28_ReadNeverFails ==
    (/\ cfg.result.handler \in {"ConfigHandler.get", "GetConfigHandler.get"}
     /\ cfg.result.body.config_type = "all")
    => /\ cfg.result.success
       /\ cfg.result.data.t = "dict"
       /\ \A section \in DOMAIN DEFAULT_CONFIG :
              /\ section \in DOMAIN cfg.result.data.v
              /\ cfg.result.data.v[section].t = "dict"
              /\ DOMAIN DEFAULT_CONFIG[section].v \subseteq DOMAIN cfg.result.data.v[section].v
       /\ \A section \in DOMAIN cfg.conf.doc \ DOMAIN DEFAULT_CONFIG :
              /\ section \in DOMAIN cfg.result.data.v
              /\ cfg.result.data.v[section] = cfg.conf.doc[section]

\* the same, for the files the reader does handle: missing, no JSON text, no
\* JSON object, an object with sections or keys missing
C28_ReadOfHandledFiles ==
    (/\ cfg.result.handler \in {"ConfigHandler.get", "GetConfigHandler.get"}
     /\ cfg.result.body.config_type = "all"
     /\ cfg.conf.kind = "object"
     /\ \A section \in DOMAIN cfg.conf.doc \cap DOMAIN DEFAULT_CONFIG :
            cfg.conf.doc[section].t = "dict"
     /\ \A i \in DOMAIN PersistedEntries(cfg.conf) :
            ~Normalize(PersistedEntries(cfg.conf)[i]).raised)
    => /\ cfg.result.success
       /\ \A section \in DOMAIN DEFAULT_CONFIG :
              /\ cfg.result.data.v[section].t = "dict"
              /\ DOMAIN DEFAULT_CONFIG[section].v \subseteq DOMAIN cfg.result.data.v[section].v
       /\ \A section \in DOMAIN cfg.conf.doc \ DOMAIN DEFAULT_CONFIG :
              cfg.result.data.v[section] = cfg.conf.doc[section]

\* C29: accepted keyed submissions have pairwise different task ids, every
\* one of them is in the registry, and a status query with the id of a run
\* that has finished reports that run's terminal state.
C29_KeyedHistory ==
    /\ \A v \in KeyedRuns : \A w \in KeyedRuns :
          runs[v].key = runs[w].key => v = w
    /\ \A w \in KeyedRuns :
          /\ runs[w].key \in DOMAIN kt
          /\ runs[w].fin =>
                LET status == KStatus(kt, runs[w].key) IN
                /\ ~status.running
                /\ status.success # "none"
                /\ status.end_time # NoneV
                /\ status.job_type = runs[w].job

\* the same as a step: a submission that is accepted takes an id that is not
\* in the registry and leaves the entries of the registry as they are
C29_AcceptedSubmissionAddsEntry ==
    [][(Len(runs') > Len(runs) /\ runs'[Len(runs')].flavor = "keyed")
       => /\ runs'[Len(runs')].key \notin DOMAIN kt
          /\ \A k \in DOMAIN kt : k \in DOMAIN kt' /\ kt'[k] = kt[k]]_vars

\* C30: in either registry a step that takes running from true to false
\* leaves the end time set, and a task state that has not run yet carries no
\* end time.
C30_EndTimeIffStopped ==
    [][/\ (g.running /\ ~g'.running) => g'.end_time # NoneV
       /\ \A k \in DOMAIN kt :
             (k \in DOMAIN kt' /\ kt[k].running /\ ~kt'[k].running)
                 => kt'[k].end_time # NoneV
       /\ (\A w \in 1..Len(runs') : runs'[w].flavor # "global")
             => g'.end_time = NoneV
       /\ \A k \in DOMAIN kt' : kt'[k].running => kt'[k].end_time = NoneV]_vars

\* the keyed registry alone
C30_KeyedEndTimeIffStopped ==
    /\ [](\A k \in DOMAIN kt : kt[k].running => kt[k].end_time = NoneV)
    /\ [][\A k \in DOMAIN kt :
            (k \in DOMAIN kt' /\ kt[k].running /\ ~kt'[k].running)
                => kt'[k].end_time # NoneV]_vars

-----------------------------------------------------------------------------
\* Properties of the orchestrators, continued (Spec)

\* C31: a status snapshot of the global slot that carries an end time carries
\* one that is later than its start time, and does not show running = true.
C31_EndTimeAfterStartTime ==
    (mainPc = "reply" /\ resp.op = "gstatus" /\ resp.accepted
       /\ resp.data.end_time # NoneV)
    => /\ resp.data.end_time > resp.data.start_time
       /\ ~resp.data.running

\* C33: at most one job callable is executing, whichever surface admitted it.
C33_OneCallableInProcess ==
    Cardinality({w \in Workers : Executing(w)}) <= 1

\* the same across the surfaces only: no callable admitted through one
\* surface is executing together with one admitted through the other
C33_NoCallableOfBothFlavors ==
    ~\E v \in GlobalRuns : \E w \in KeyedRuns : Executing(v) /\ Executing(w)

\* C34: whenever no job callable is executing, the working directory is the
\* one the process had before the first callable was launched.
C34_WorkingDirectoryRestored ==
    (\A w \in Workers : ~Executing(w)) => cwd = "home"

\* the global run of the most recent submission that was accepted
AcceptedGlobalRuns == {w \in GlobalRuns : runs[w].pc # "dropped"}
LatestGlobalRun ==
    CHOOSE w \in AcceptedGlobalRuns : \A v \in AcceptedGlobalRuns : v <= w

\* C38: a status snapshot of the global slot with running = true names the
\* job of the most recent accepted submission, its detail has records of that
\* job's progress keys only, and its progress is their aggregate when there
\* is one.
C38_SnapshotIsOfLatestJob ==
    (mainPc = "reply" /\ resp.op = "gstatus" /\ resp.accepted /\ resp.data.running)
    => /\ AcceptedGlobalRuns # {}
       /\ resp.data.job = runs[LatestGlobalRun].job
       /\ DOMAIN resp.data.progress_details
             \subseteq Range(PROGRESS_GROUPS[runs[LatestGlobalRun].job])
       /\ LET S == DOMAIN resp.data.progress_details IN
          MeanOf(S, file) # NoneV => resp.data.progress = MeanOf(S, file)

\* a second job, of another kind than the first, is running and a snapshot
\* of it was taken
C38_Witness ==
    /\ mainPc = "reply" /\ resp.op = "gstatus" /\ resp.accepted
    /\ resp.data.running
    /\ Cardinality(AcceptedGlobalRuns) = 2
    /\ runs[LatestGlobalRun].job = "indicators"
    /\ \E v \in AcceptedGlobalRuns : runs[v].job = "full"
    /\ resp.data.job = "indicators"

\* C39: the cleanup of a global job removes no record that a global job
\* admitted after it, and still in flight, has written.
C39_CleanupSparesLaterJob ==
    [][\A w \in Workers :
         (/\ runs[w].flavor = "global"
          /\ runs[w].pc \in {"cleanup", "cleanup_dying"}
          /\ runs'[w] # runs[w])
         => \A k \in DOMAIN file.data \ DOMAIN file'.data :
               ~(/\ file.data[k].by > w
                 /\ runs[file.data[k].by].flavor = "global"
                 /\ InFlight(file.data[k].by))]_vars

-----------------------------------------------------------------------------
\* Properties of concurrent Progress Store calls (ConcSpec)

ConcAllReturned == cfg.pc = "conc" /\ \A t \in ConcThreads : cfg.th[t].pc = "done"
ConcUpdatedKeys == {ConcKeys[t] : t \in {u \in ConcThreads : cfg.th[u].op = "update"}}
ConcClearedKeys == {ConcKeys[t] : t \in {u \in ConcThreads : cfg.th[u].op = "clear"}}
ConcThreadOf(k) == CHOOSE t \in ConcThreads : ConcKeys[t] = k

\* the record an update of thread t leaves, given the document before all calls
ConcExpected(t) ==
    LET before == ReadAll(cfg.init).data
        old == IF ConcKeys[t] \in DOMAIN before THEN before[ConcKeys[t]].success ELSE "unset"
    IN NewRecord(old, ConcArgs(t).current, ConcArgs(t).total, ConcArgs(t).message,
                 ConcArgs(t).success, t)

\* C37: update and clear calls on distinct keys, made on different threads at
\* once, lose no update: no call raises, and once all of them have returned
\* the store holds a record for exactly the updated keys, each with the
\* values written, and none for the cleared keys.
C37_NoLostUpdate ==
    /\ cfg.pc = "conc" => \A t \in ConcThreads : cfg.th[t].pc # "raised"
    /\ ConcAllReturned =>
         /\ DOMAIN ReadAll(file).data = ConcUpdatedKeys
         /\ \A k \in ConcUpdatedKeys : ReadAll(file).data[k] = ConcExpected(ConcThreadOf(k))
         /\ ConcClearedKeys \cap DOMAIN ReadAll(file).data = {}

\* three calls made at once have all returned: two updates, one of a key
\* that had a record and one of a key that had none, and a clear of a key
\* that had a record
C37_Witness ==
    /\ ConcAllReturned
    /\ cfg.th[1].op = "update" /\ cfg.th[2].op = "update" /\ cfg.th[3].op = "clear"
    /\ DOMAIN ReadAll(cfg.init).data = {ConcKeys[1], ConcKeys[3]}
    /\ DOMAIN file.data = {ConcKeys[1], ConcKeys[2]}

-----------------------------------------------------------------------------
\* Properties of the locks (LockSpec)

LThreads == {0} \cup Workers

\* the lock thread t is about to enter, "none" when it is at no `with`
Wants(t) ==
    IF t = 0
    THEN IF mainPc \in DOMAIN MainWants THEN MainWants[mainPc] ELSE "none"
    ELSE JobWants(runs[t].flavor, runs[t].pc)

\* t is about to enter a lock it cannot enter now
Blocked(t) == Wants(t) # "none" /\ ~CanTake(Wants(t), t)

HoldsAny(t) == Holder("task") = t \/ Holder("ktask") = t \/ Holder("store") = t

\* thread w is inside its job callable; at "upd" and "upd_in" inside the
\* progress_tracker.update the callable has called
InCallable(w) == runs[w].pc \in {"call", "upd", "upd_in"}

StatusPositions == {"gs_lock", "gs_store", "gs_read", "ks_lock", "ks_in"}

\* C32: a status query is side-effect-free.  No step of
\* DataUpdateStatusHandler.get or JobUpdateStatusHandler.get changes the two
\* task registries, the progress file or its temporary file, the working
\* directory or any job thread, and the handler returns with no lock held.
C32_StatusSideEffectFree ==
    [][((mainPc \in StatusPositions \/ mainPc' \in StatusPositions) /\ mainPc' # mainPc)
       => /\ UNCHANGED <<g, kt, file, tmp, cwd, runs, clock>>
          /\ mainPc' = "reply" => ~HoldsAny(0)']_vars

\* a status query of the global slot has answered while a job is inside its
\* callable and has reported progress
C32_Witness ==
    /\ cfg.pc = "locks"
    /\ mainPc = "reply" /\ resp.op = "gstatus" /\ resp.accepted
    /\ resp.data.running
    /\ DOMAIN resp.data.progress_details # {}
    /\ \E w \in Workers : runs[w].flavor = "global" /\ runs[w].pc = "call"

\* a status query of the keyed registry has answered for a running task
C32_WitnessKeyed ==
    /\ cfg.pc = "locks"
    /\ mainPc = "reply" /\ resp.op = "kstatus" /\ resp.task_id # <<>>
    /\ resp.data.running
    /\ \E w \in Workers : runs[w].flavor = "keyed" /\ runs[w].pc = "call"

\* C35: neither lock is held across a job callable.  A thread inside its
\* callable holds no task lock, and holds the store lock only inside the
\* progress_tracker.update the callable itself has called; so a handler that
\* waits for a lock never waits for a thread that is computing in its callable.
C35_NoLockAcrossCallable ==
    cfg.pc = "locks" =>
      /\ \A w \in Workers : InCallable(w) =>
            /\ Holder("task") # w
            /\ Holder("ktask") # w
            /\ runs[w].pc # "upd_in" => Holder("store") # w
            /\ runs[w].pc = "upd_in" => cfg.store = [owner |-> w, count |-> 1]
      /\ Blocked(0) => Holder(Wants(0)) \in Workers
                       /\ runs[Holder(Wants(0))].pc \notin {"call", "upd"}

\* while a job is inside its callable, after a progress report, a status
\* query is inside both locks
C35_Witness ==
    /\ cfg.pc = "locks"
    /\ mainPc = "gs_read"
    /\ \E w \in Workers : runs[w].flavor = "global" /\ runs[w].pc = "call" /\ runs[w].nupd = 1
    /\ \E w \in Workers : runs[w].flavor = "keyed" /\ runs[w].pc = "call"

\* C36: every write to the task state of the global slot is made by the
\* thread that holds the task lock.
C36_WritesUnderTaskLock ==
    [][g' # g =>
         \/ cfg.task = 0 /\ mainPc' # mainPc
         \/ cfg.task \in Workers /\ runs'[cfg.task].pc # runs[cfg.task].pc]_vars

\* C40: no deadlock between the locks.  No set of threads wait for locks held
\* within the set; a task lock is never requested by a thread that holds the
\* store lock; the store lock is requested by a thread that holds at most
\* one task lock; a thread that is at rest or has ended holds no lock.
C40_NoDeadlock ==
    cfg.pc = "locks" =>
      /\ ~\E S \in SUBSET LThreads \ {{}} :
            \A t \in S : Blocked(t) /\ Holder(Wants(t)) \in S
      /\ \A t \in LThreads : Wants(t) \in {"task", "ktask"} => Holder("store") # t
      /\ \A t \in LThreads : Wants(t) = "store" => ~(Holder("task") = t /\ Holder("ktask") = t)
      /\ mainPc \in {"idle", "reply"} => ~HoldsAny(0)
      /\ \A w \in Workers : runs[w].pc \in {"done", "died", "dropped"} => ~HoldsAny(w)

\* a chain of waits that is no cycle: a status query waits for the task lock,
\* held by a finalization that waits for the store lock, held by the
\* progress report of the other job
C40_Witness ==
    /\ cfg.pc = "locks"
    /\ mainPc = "gs_lock" /\ Blocked(0)
    /\ Holder("task") \in Workers
    /\ Blocked(Holder("task"))
    /\ Holder("store") \in Workers
    /\ runs[Holder("store")].pc = "upd_in"

\* C36, what a status query sees: the job field of a snapshot is the job of
\* the update type in the same snapshot (both are of the same submission).
C36_SnapshotJobIsOfItsType ==
    (cfg.pc = "locks" /\ mainPc = "reply" /\ resp.op = "gstatus" /\ resp.accepted
       /\ resp.data.type # "unset")
    => resp.data.job = GJobKey(resp.data.type)

====
